---- MODULE Spec2Model ----
(***************************************************************************)
(* Model of the Pokedex backend's caching layer: CacheManager (the Redis   *)
(* wrapper), PokemonCache / PokeAPICache (the namespaced caches), the      *)
(* module-level clear_all_cache, and the Pokemon HTTP resources that read  *)
(* through the cache (backend/services/cache.py, backend/routes/           *)
(* pokemon_routes.py).                                                     *)
(*                                                                         *)
(* Strings are TLA+ strings; Python values are tagged records.             *)
(***************************************************************************)
EXTENDS Integers, Sequences, FiniteSets, TLC

VARIABLES
    connected,   \* CacheManager.redis_client is not None (set in __init__)
    backendUp,   \* the Redis server is reachable
    store,       \* Redis keyspace: present key -> [val, ttl]; ttl = NoExpiry or seconds left
    ret,         \* outcome of the last cache-layer call
    db,          \* pokemon table: pokemon_id of each row -> the row's data
    favorites,   \* user_pokemon table: user id -> set of pokemon_id
    resp,        \* outcome of the last HTTP handler
    written,     \* key -> [value, ttl, age] of the last direct set(key, value, ttl)
                 \* with a ttl that succeeded, until the key is set or deleted anew
    running      \* calls in progress: id of the call -> its position and locals

vars == <<connected, backendUp, store, ret, db, favorites, resp, written, running>>

----------------------------------------------------------------------------
(* Python values *)

PyNone == [t |-> "None"]
PyInt(n) == [t |-> "int", v |-> n]
PyStr(s) == [t |-> "str", v |-> s]

\* Python truthiness of None / int / str / dict-like payloads.
Truthy(x) ==
    CASE x.t = "None" -> FALSE
      [] x.t = "int" -> x.v # 0
      [] x.t = "str" -> x.v # ""
      [] OTHER -> TRUE

----------------------------------------------------------------------------
(* Strings *)

\* Characters of the dict keys in code-point order ('_' = 95 < 'a' = 97).
Alphabet == "_abcdefghijklmnopqrstuvwxyz"

CharCodes ==
    [c \in {SubSeq(Alphabet, i, i) : i \in 1..Len(Alphabet)} |->
        CHOOSE i \in 1..Len(Alphabet) : SubSeq(Alphabet, i, i) = c]

CharCode(c) == CharCodes[c]

\* a < b for strings equal before position i
RECURSIVE StrLessFrom(_, _, _)
StrLessFrom(a, b, i) ==
    IF i > Len(b) THEN FALSE
    ELSE IF i > Len(a) THEN TRUE
    ELSE LET ca == CharCode(SubSeq(a, i, i))
             cb == CharCode(SubSeq(b, i, i))
         IN IF ca # cb THEN ca < cb ELSE StrLessFrom(a, b, i + 1)

\* Python's str < str: lexicographic by code point.
StrLess(a, b) == StrLessFrom(a, b, 1)

StartsWith(s, p) == Len(p) <= Len(s) /\ SubSeq(s, 1, Len(p)) = p

\* Redis glob match for the patterns the code uses: a literal followed by '*'.
GlobMatch(pattern, key) ==
    IF Len(pattern) > 0 /\ SubSeq(pattern, Len(pattern), Len(pattern)) = "*"
    THEN StartsWith(key, SubSeq(pattern, 1, Len(pattern) - 1))
    ELSE key = pattern

\* ":".join(parts)
RECURSIVE JoinColon(_)
JoinColon(parts) ==
    IF Len(parts) = 0 THEN ""
    ELSE IF Len(parts) = 1 THEN parts[1]
    ELSE parts[1] \o ":" \o JoinColon(Tail(parts))

\* str(x) for an int or a str identifier
PyToStr(x) == IF x.t = "int" THEN ToString(x.v) ELSE x.v

\* CacheManager._generate_key(prefix, identifier, *args)
generate_key(prefix, identifier, args) ==
    JoinColon(<<prefix, PyToStr(identifier)>>
              \o [i \in 1..Len(args) |-> PyToStr(args[i])])

----------------------------------------------------------------------------
(* Redis server, as seen through redis-py.  A command raises when the       *)
(* server cannot be reached (ok = FALSE).                                   *)

NoExpiry == -1

Raise == [exc |-> TRUE]
Return(v, st) == [exc |-> FALSE, val |-> v, st |-> st]

Put(st, key, entry) ==
    [k \in DOMAIN st \cup {key} |-> IF k = key THEN entry ELSE st[k]]

Drop(st, keys) == [k \in DOMAIN st \ keys |-> st[k]]

redis_ping(ok) == IF ok THEN Return(TRUE, <<>>) ELSE Raise

\* SET key value: stores without expiry
redis_set(st, key, value, ok) ==
    IF ~ok THEN Raise
    ELSE Return(TRUE, Put(st, key, [val |-> value, ttl |-> NoExpiry]))

\* SETEX key seconds value: the server rejects seconds <= 0
redis_setex(st, key, seconds, value, ok) ==
    IF ~ok \/ seconds <= 0 THEN Raise
    ELSE Return(TRUE, Put(st, key, [val |-> value, ttl |-> seconds]))

redis_get(st, key, ok) ==
    IF ~ok THEN Raise
    ELSE Return(IF key \in DOMAIN st THEN st[key].val ELSE PyNone, st)

\* DEL key [key ...]: the number of keys removed
redis_delete(st, keys, ok) ==
    IF ~ok THEN Raise
    ELSE Return(Cardinality(keys \cap DOMAIN st), Drop(st, keys))

redis_exists(st, key, ok) ==
    IF ~ok THEN Raise
    ELSE Return(IF key \in DOMAIN st THEN 1 ELSE 0, st)

redis_keys(st, pattern, ok) ==
    IF ~ok THEN Raise
    ELSE Return({k \in DOMAIN st : GlobMatch(pattern, k)}, st)

\* TTL key: -2 for a missing key, -1 for a key without expiry
redis_ttl(st, key, ok) ==
    IF ~ok THEN Raise
    ELSE Return(IF key \in DOMAIN st THEN st[key].ttl ELSE -2, st)

\* The passage of d seconds: entries whose time is up are gone.
Expire(st, d) ==
    [k \in {x \in DOMAIN st : st[x].ttl = NoExpiry \/ st[x].ttl > d} |->
        IF st[k].ttl = NoExpiry THEN st[k]
        ELSE [st[k] EXCEPT !.ttl = @ - d]]

\* str.lower() on ASCII text
UpperCase == "ABCDEFGHIJKLMNOPQRSTUVWXYZ"
LowerCase == "abcdefghijklmnopqrstuvwxyz"

LowerChar(c) ==
    IF \E i \in 1..Len(UpperCase) : SubSeq(UpperCase, i, i) = c
    THEN LET i == CHOOSE j \in 1..Len(UpperCase) : SubSeq(UpperCase, j, j) = c
         IN SubSeq(LowerCase, i, i)
    ELSE c

RECURSIVE Lower(_)
Lower(s) ==
    IF s = "" THEN ""
    ELSE LowerChar(SubSeq(s, 1, 1)) \o Lower(SubSeq(s, 2, Len(s)))

----------------------------------------------------------------------------
(* More Python values.  A list, a tuple and a dict written out member by   *)
(* member; a float by its repr; a datetime by its str().                   *)

PyBool(b) == [t |-> "bool", v |-> b]
PyFloat(r) == [t |-> "float", v |-> r]
PyList(items) == [t |-> "list", items |-> items]
PyTuple(items) == [t |-> "tuple", items |-> items]
\* items: the <<key, value>> pairs in insertion order, the keys Python values
PyDict(items) == [t |-> "dict", items |-> items]
PyDatetime(text) == [t |-> "datetime", v |-> text]

\* str(x), the default= of json.dumps in _serialize_data
PyStrOf(x) ==
    CASE x.t = "datetime" -> x.v

----------------------------------------------------------------------------
(* json.dumps(data, default=str): the JSON text, or TypeError              *)

Encoded(text) == [ok |-> TRUE, text |-> text]
TypeError == [ok |-> FALSE, err |-> "TypeError"]

EscapeStr_Plain(s) == s

\* py_encode_basestring_ascii on text without control or non-ASCII characters
RECURSIVE EscapeStr(_)
EscapeStr(s) ==
    IF s = "" THEN ""
    ELSE LET c == SubSeq(s, 1, 1)
             rest == EscapeStr(SubSeq(s, 2, Len(s)))
         IN IF c = "\"" THEN "\\\"" \o rest
            ELSE IF c = "\\" THEN "\\\\" \o rest
            ELSE c \o rest

\* float.__repr__ as the encoder writes it
JsonFloat(r) ==
    CASE r = "nan" -> "NaN"
      [] r = "inf" -> "Infinity"
      [] r = "-inf" -> "-Infinity"
      [] OTHER -> r

\* A dict key: str as it is, int / float / bool / None coerced to text, any
\* other key a TypeError (default= is not consulted for keys)
JsonKey(k) ==
    CASE k.t = "str" -> Encoded(k.v)
      [] k.t = "int" -> Encoded(ToString(k.v))
      [] k.t = "float" -> Encoded(JsonFloat(k.v))
      [] k.t = "bool" -> Encoded(IF k.v THEN "true" ELSE "false")
      [] k.t = "None" -> Encoded("null")
      [] OTHER -> TypeError

\* ", ".join(texts)
RECURSIVE JoinComma(_)
JoinComma(texts) ==
    IF Len(texts) = 0 THEN ""
    ELSE IF Len(texts) = 1 THEN texts[1]
    ELSE texts[1] \o ", " \o JoinComma(Tail(texts))

RECURSIVE JsonEncode(_)
JsonEncode(x) ==
    CASE x.t = "None" -> Encoded("null")
      [] x.t = "bool" -> Encoded(IF x.v THEN "true" ELSE "false")
      [] x.t = "int" -> Encoded(ToString(x.v))
      [] x.t = "float" -> Encoded(JsonFloat(x.v))
      [] x.t = "str" -> Encoded("\"" \o EscapeStr(x.v) \o "\"")
      [] x.t \in {"list", "tuple"} ->
            LET parts == [i \in 1..Len(x.items) |-> JsonEncode(x.items[i])]
            IN IF \E i \in 1..Len(parts) : ~parts[i].ok THEN TypeError
               ELSE Encoded("[" \o JoinComma([i \in 1..Len(parts) |-> parts[i].text])
                            \o "]")
      [] x.t = "dict" ->
            LET keys == [i \in 1..Len(x.items) |-> JsonKey(x.items[i][1])]
                vals == [i \in 1..Len(x.items) |-> JsonEncode(x.items[i][2])]
            IN IF \E i \in 1..Len(keys) : ~keys[i].ok \/ ~vals[i].ok THEN TypeError
               ELSE Encoded("{" \o JoinComma([i \in 1..Len(keys) |->
                                "\"" \o EscapeStr(keys[i].text) \o "\": " \o vals[i].text])
                            \o "}")
      [] OTHER -> JsonEncode(PyStr(PyStrOf(x)))

----------------------------------------------------------------------------
(* json.loads(text): the value, JSONDecodeError, or RecursionError when    *)
(* the text nests arrays and objects deeper than the interpreter's         *)
(* recursion limit allows.                                                 *)

\* The nesting depth at which the scanner raises RecursionError (1000 less the
\* caller's depth in CPython; scaled down here)
RecursionLimit == 3

Parsed(v, i) == [ok |-> TRUE, val |-> v, pos |-> i]
DecodeError == [ok |-> FALSE, err |-> "JSONDecodeError"]
RecursionError == [ok |-> FALSE, err |-> "RecursionError"]

\* The character at position i, "" past the end
Ch(s, i) == IF i >= 1 /\ i <= Len(s) THEN SubSeq(s, i, i) ELSE ""

Digits == "0123456789"
DigitSet == {SubSeq(Digits, i, i) : i \in 1..Len(Digits)}
DigitValue(c) == (CHOOSE i \in 1..Len(Digits) : SubSeq(Digits, i, i) = c) - 1

RECURSIVE SkipWs(_, _)
SkipWs(s, i) == IF Ch(s, i) = " " THEN SkipWs(s, i + 1) ELSE i

\* The position after the run of digits that starts at i
RECURSIVE ScanDigits(_, _)
ScanDigits(s, i) == IF Ch(s, i) \in DigitSet THEN ScanDigits(s, i + 1) ELSE i

\* int(text) for a run of digits
RECURSIVE NatOf(_)
NatOf(text) ==
    IF text = "" THEN 0
    ELSE 10 * NatOf(SubSeq(text, 1, Len(text) - 1))
         + DigitValue(SubSeq(text, Len(text), Len(text)))

\* NUMBER_RE: -?(0|[1-9]\d*)(\.\d+)?([eE][-+]?\d+)?  matched from position i.
\* j: after the sign; intEnd, fracEnd, end: after the integer part, the
\* fraction and the exponent.  An int when there is no fraction and no
\* exponent, else a float (written by the text matched).
NumberMatched(s, i, j, intEnd, end) ==
    IF intEnd = j THEN DecodeError
    ELSE IF end = intEnd
    THEN Parsed(PyInt((IF j > i THEN -1 ELSE 1) * NatOf(SubSeq(s, j, intEnd - 1))), end)
    ELSE Parsed(PyFloat(SubSeq(s, i, end - 1)), end)

ExponentEnd(s, fracEnd, k) ==
    IF Ch(s, fracEnd) \in {"e", "E"} /\ Ch(s, k) \in DigitSet
    THEN ScanDigits(s, k) ELSE fracEnd

AfterSign(s, k) == IF Ch(s, k) \in {"+", "-"} THEN k + 1 ELSE k

FractionEnd(s, intEnd) ==
    IF Ch(s, intEnd) = "." /\ Ch(s, intEnd + 1) \in DigitSet
    THEN ScanDigits(s, intEnd + 1) ELSE intEnd

IntegerEnd(s, j) == IF Ch(s, j) = "0" THEN j + 1 ELSE ScanDigits(s, j)

NumberFraction(s, i, j, intEnd, fracEnd) ==
    NumberMatched(s, i, j, intEnd, ExponentEnd(s, fracEnd, AfterSign(s, fracEnd + 1)))

NumberInteger(s, i, j, intEnd) == NumberFraction(s, i, j, intEnd, FractionEnd(s, intEnd))

NumberSigned(s, i, j) == NumberInteger(s, i, j, IntegerEnd(s, j))

ParseNumber(s, i) == NumberSigned(s, i, IF Ch(s, i) = "-" THEN i + 1 ELSE i)

\* py_scanstring from position i, after the opening quote; acc: the text so far
RECURSIVE ParseString(_, _, _)
ParseString(s, i, acc) ==
    IF Ch(s, i) = "" THEN DecodeError
    ELSE IF Ch(s, i) = "\"" THEN Parsed(PyStr(acc), i + 1)
    ELSE IF Ch(s, i) = "\\"
    THEN IF Ch(s, i + 1) \in {"\"", "\\", "/"}
         THEN ParseString(s, i + 2, acc \o Ch(s, i + 1))
         ELSE DecodeError
    ELSE ParseString(s, i + 1, acc \o Ch(s, i))

\* dict item assignment: the value of an existing key is replaced in place
DictSet(items, k, v) ==
    IF \E i \in 1..Len(items) : items[i][1] = k
    THEN [i \in 1..Len(items) |-> IF items[i][1] = k THEN <<k, v>> ELSE items[i]]
    ELSE Append(items, <<k, v>>)

Literals ==
    << <<"null", PyNone>>, <<"true", PyBool(TRUE)>>, <<"false", PyBool(FALSE)>>,
       <<"NaN", PyFloat("nan")>>, <<"Infinity", PyFloat("inf")>>,
       <<"-Infinity", PyFloat("-inf")>> >>

\* The literals that the text holds at position i
LiteralAt(s, i) ==
    {n \in 1..Len(Literals) :
        /\ i >= 1 /\ i + Len(Literals[n][1]) - 1 <= Len(s)
        /\ SubSeq(s, i, i + Len(Literals[n][1]) - 1) = Literals[n][1]}

ParseLiteral(i, found) ==
    Parsed(Literals[CHOOSE n \in found : TRUE][2],
           i + Len(Literals[CHOOSE n \in found : TRUE][1]))

\* scan_once / JSONArray / JSONObject; depth: the containers entered so far,
\* limit: how many may be entered
RECURSIVE ParseValue(_, _, _, _), ParseArray(_, _, _, _, _), ParseObject(_, _, _, _, _)

\* After "[" or "{" and the whitespace that follows, at position j
ParseContainer(s, open, j, depth, limit) ==
    IF open = "["
    THEN IF Ch(s, j) = "]" THEN Parsed(PyList(<<>>), j + 1)
         ELSE ParseArray(s, j, depth + 1, limit, <<>>)
    ELSE IF Ch(s, j) = "}" THEN Parsed(PyDict(<<>>), j + 1)
         ELSE ParseObject(s, j, depth + 1, limit, <<>>)

ParseValue(s, i, depth, limit) ==
    IF Ch(s, i) = "\"" THEN ParseString(s, i + 1, "")
    ELSE IF Ch(s, i) \in {"[", "{"}
    THEN IF depth >= limit THEN RecursionError
         ELSE ParseContainer(s, Ch(s, i), SkipWs(s, i + 1), depth, limit)
    ELSE IF LiteralAt(s, i) # {} THEN ParseLiteral(i, LiteralAt(s, i))
    ELSE ParseNumber(s, i)

\* After the element v, at position j: "," and more elements, or "]"
ArrayNext(s, v, j, depth, limit, acc) ==
    IF Ch(s, j) = ","
    THEN ParseArray(s, SkipWs(s, j + 1), depth, limit, Append(acc, v.val))
    ELSE IF Ch(s, j) = "]" THEN Parsed(PyList(Append(acc, v.val)), j + 1)
    ELSE DecodeError

ArrayElement(s, v, depth, limit, acc) ==
    IF ~v.ok THEN v ELSE ArrayNext(s, v, SkipWs(s, v.pos), depth, limit, acc)

\* The elements from position i, after "[" or ","; acc: the elements so far
ParseArray(s, i, depth, limit, acc) ==
    ArrayElement(s, ParseValue(s, i, depth, limit), depth, limit, acc)

\* After the item k: v, at position j: "," and more items, or "}"
ObjectNext(s, j, depth, limit, items) ==
    IF Ch(s, j) = "," THEN ParseObject(s, SkipWs(s, j + 1), depth, limit, items)
    ELSE IF Ch(s, j) = "}" THEN Parsed(PyDict(items), j + 1)
    ELSE DecodeError

ObjectValue(s, k, v, depth, limit, acc) ==
    IF ~v.ok THEN v
    ELSE ObjectNext(s, SkipWs(s, v.pos), depth, limit, DictSet(acc, k.val, v.val))

\* After the key k, at position c: ":" and the value
ObjectColon(s, k, c, depth, limit, acc) ==
    IF Ch(s, c) # ":" THEN DecodeError
    ELSE ObjectValue(s, k, ParseValue(s, SkipWs(s, c + 1), depth, limit),
                     depth, limit, acc)

ObjectKey(s, k, depth, limit, acc) ==
    IF ~k.ok THEN k ELSE ObjectColon(s, k, SkipWs(s, k.pos), depth, limit, acc)

\* The items from position i, after "{" or ","; acc: the items so far
ParseObject(s, i, depth, limit, acc) ==
    IF Ch(s, i) # "\"" THEN DecodeError
    ELSE ObjectKey(s, ParseString(s, i + 1, ""), depth, limit, acc)

\* JSONDecoder.decode: one value, then nothing but whitespace
DecodeEnd(s, r) ==
    IF ~r.ok THEN r
    ELSE IF SkipWs(s, r.pos) # Len(s) + 1 THEN DecodeError
    ELSE r

Decode(s, limit) == DecodeEnd(s, ParseValue(s, SkipWs(s, 1), 0, limit))

json_loads(s) == Decode(s, RecursionLimit)

\* Whether the text is JSON, however deep it nests
ValidJson(s) == Decode(s, Len(s) + 1).ok

----------------------------------------------------------------------------
(* bytes.fromhex(text) and pickle.loads(bytes).  A byte is the lower-case  *)
(* text of its two hex digits.                                             *)

HexDigits == "0123456789abcdef"
HexSet == {SubSeq(HexDigits, i, i) : i \in 1..Len(HexDigits)}
HexValue(c) == (CHOOSE i \in 1..Len(HexDigits) : SubSeq(HexDigits, i, i) = c) - 1
ByteValue(b) == 16 * HexValue(SubSeq(b, 1, 1)) + HexValue(SubSeq(b, 2, 2))

Bytes(bs) == [ok |-> TRUE, bytes |-> bs]
ValueError == [ok |-> FALSE, err |-> "ValueError"]

RECURSIVE FromHex(_, _)

HexPrepend(b, rest) == IF rest.ok THEN Bytes(<<b>> \o rest.bytes) ELSE rest

HexPair(s, j) ==
    IF j > Len(s) THEN Bytes(<<>>)
    ELSE IF LowerChar(Ch(s, j)) \in HexSet /\ LowerChar(Ch(s, j + 1)) \in HexSet
    THEN HexPrepend(LowerChar(Ch(s, j)) \o LowerChar(Ch(s, j + 1)), FromHex(s, j + 2))
    ELSE ValueError

\* bytes.fromhex: pairs of hex digits, whitespace between the pairs skipped
FromHex(s, i) == HexPair(s, SkipWs(s, i))

Unpickled(v) == [ok |-> TRUE, val |-> v]
UnpicklingError == [ok |-> FALSE, err |-> "UnpicklingError"]

\* The unpickler's loop from byte i with the given stack.  The opcodes are
\* PROTO, NONE, NEWTRUE, NEWFALSE, BININT1, EMPTY_LIST, EMPTY_TUPLE,
\* EMPTY_DICT and STOP; a byte below MARK (0x28) or above the last opcode
\* (0x98) is an invalid load key.
RECURSIVE Unpickle(_, _, _)
Unpickle(bs, i, stack) ==
    IF i > Len(bs) THEN UnpicklingError
    ELSE CASE ByteValue(bs[i]) < 40 \/ ByteValue(bs[i]) > 152 -> UnpicklingError
           [] bs[i] \in {"80", "4b"} /\ i + 1 > Len(bs) -> UnpicklingError
           [] bs[i] = "2e" -> IF Len(stack) = 0 THEN UnpicklingError
                              ELSE Unpickled(stack[Len(stack)])
           [] bs[i] \in {"80", "4b", "4e", "88", "89", "5d", "29", "7d"} ->
                Unpickle(bs, IF bs[i] \in {"80", "4b"} THEN i + 2 ELSE i + 1,
                         CASE bs[i] = "80" -> stack
                           [] bs[i] = "4b" -> Append(stack, PyInt(ByteValue(bs[i + 1])))
                           [] bs[i] = "4e" -> Append(stack, PyNone)
                           [] bs[i] = "88" -> Append(stack, PyBool(TRUE))
                           [] bs[i] = "89" -> Append(stack, PyBool(FALSE))
                           [] bs[i] = "5d" -> Append(stack, PyList(<<>>))
                           [] bs[i] = "29" -> Append(stack, PyTuple(<<>>))
                           [] bs[i] = "7d" -> Append(stack, PyDict(<<>>)))

pickle_loads(bs) == Unpickle(bs, 1, <<>>)

\* pickle.loads(bytes.fromhex(text)): h is the outcome of fromhex
LoadsHex(h) == IF h.ok THEN pickle_loads(h.bytes) ELSE h

\* Whether the text is the hex of a pickle
HexPickle(s) == LoadsHex(FromHex(s, 1)).ok

\* The payloads of the handlers: dicts of JSON types with string keys, held
\* without their members written out.
IsPayload(data) == data.t = "dict" /\ "items" \notin DOMAIN data

\* The number a bool or an int stands for in a comparison
NumberOf(x) == IF x.t = "bool" THEN (IF x.v THEN 1 ELSE 0) ELSE x.v

\* Python's a == b.  bool and int compare as numbers, a float equals an int
\* whose repr it extends by ".0", nan equals nothing, a list never equals a
\* tuple, and dicts compare item by item whatever their order.
RECURSIVE PyEq(_, _)
PyEq(a, b) ==
    CASE a.t \in {"bool", "int"} /\ b.t \in {"bool", "int"} -> NumberOf(a) = NumberOf(b)
      [] a.t \in {"bool", "int"} /\ b.t = "float" -> b.v = ToString(NumberOf(a)) \o ".0"
      [] a.t = "float" /\ b.t \in {"bool", "int"} -> a.v = ToString(NumberOf(b)) \o ".0"
      [] a.t # b.t -> FALSE
      [] a.t = "None" -> TRUE
      [] a.t = "float" -> a.v # "nan" /\ a.v = b.v
      [] a.t \in {"str", "datetime"} -> a.v = b.v
      [] a.t \in {"list", "tuple"} ->
            /\ Len(a.items) = Len(b.items)
            /\ \A i \in 1..Len(a.items) : PyEq(a.items[i], b.items[i])
      [] a.t = "dict" /\ IsPayload(a) -> IsPayload(b) /\ a = b
      [] a.t = "dict" ->
            /\ ~IsPayload(b)
            /\ Len(a.items) = Len(b.items)
            /\ \A i \in 1..Len(a.items) : \E j \in 1..Len(b.items) :
                  /\ PyEq(a.items[i][1], b.items[j][1])
                  /\ PyEq(a.items[i][2], b.items[j][2])

\* e: the outcome of json.dumps; on TypeError the hex of the pickle
SerializedAs(data, e) == IF e.ok THEN [text |-> e.text] ELSE [hex |-> data]

\* _serialize_data: the text stored.  [json |-> p]: the JSON text of the
\* payload p; [text |-> s]: the text s; [hex |-> v]: pickle.dumps(v).hex().
serialize_data(data) ==
    IF IsPayload(data) THEN [json |-> data]
    ELSE SerializedAs(data, JsonEncode(data))

Decoded(v) == [raised |-> FALSE, val |-> v]
DecodeRaised == [raised |-> TRUE, val |-> PyNone]

\* The inner try: p is the outcome of pickle.loads(bytes.fromhex(data))
DecodedPickle(text, p) == IF p.ok THEN Decoded(p.val) ELSE Decoded(PyStr(text))

\* The outer try: r is the outcome of json.loads(data)
DecodedJson(text, r) ==
    IF r.ok THEN Decoded(r.val)
    ELSE IF r.err # "JSONDecodeError" THEN DecodeRaised
    ELSE DecodedPickle(text, LoadsHex(FromHex(text, 1)))

\* _deserialize_data.  The hex text of a pickle ends in 2e (STOP), so it is
\* never JSON, and json.loads gives a payload's JSON text back as the payload.
deserialize_data(data) ==
    IF "json" \in DOMAIN data THEN Decoded(data.json)
    ELSE IF "hex" \in DOMAIN data THEN Decoded(data.hex)
    ELSE DecodedJson(data.text, json_loads(data.text))

----------------------------------------------------------------------------
(* CacheManager.  Each method returns [val, raised, st]: the value         *)
(* returned, whether an exception left the method, and the keyspace after. *)
(* pingOk / cmdOk: whether the server answers is_available()'s ping and    *)
(* the command that follows it.                                            *)

Result(v, st) == [val |-> v, raised |-> FALSE, st |-> st]
Propagate(st) == [val |-> PyNone, raised |-> TRUE, st |-> st]

\* is_available() of a client that is created again when it is missing
is_available_Reconnecting(pingOk) ==
    IF redis_ping(pingOk).exc THEN FALSE
    ELSE TRUE

is_available(pingOk) ==
    IF ~connected THEN FALSE
    ELSE IF redis_ping(pingOk).exc THEN FALSE
    ELSE TRUE

CacheManager_set_NoCatch(st, key, value, ttl, pingOk, cmdOk) ==
    IF ~is_available(pingOk) THEN Result(FALSE, st)
    ELSE LET serialized_value == serialize_data(value)
             r == IF Truthy(ttl)
                  THEN redis_setex(st, key, ttl.v, serialized_value, cmdOk)
                  ELSE redis_set(st, key, serialized_value, cmdOk)
         IN IF r.exc THEN Propagate(st) ELSE Result(r.val, r.st)

CacheManager_set_NoExpiry(st, key, value, ttl, pingOk, cmdOk) ==
    IF ~is_available(pingOk) THEN Result(FALSE, st)
    ELSE LET serialized_value == serialize_data(value)
             r == redis_set(st, key, serialized_value, cmdOk)
         IN IF r.exc THEN Result(FALSE, st) ELSE Result(r.val, r.st)

CacheManager_set(st, key, value, ttl, pingOk, cmdOk) ==
    IF ~is_available(pingOk) THEN Result(FALSE, st)
    ELSE LET serialized_value == serialize_data(value)
             r == IF Truthy(ttl)
                  THEN redis_setex(st, key, ttl.v, serialized_value, cmdOk)
                  ELSE redis_set(st, key, serialized_value, cmdOk)
         IN IF r.exc THEN Result(FALSE, st) ELSE Result(r.val, r.st)

\* get after _deserialize_data: the value decoded, or what get makes of an
\* exception raised while decoding
Deserialized(deserialized_data, st, caught) ==
    IF deserialized_data.raised THEN caught ELSE Result(deserialized_data.val, st)

CacheManager_get_NoCatch(st, key, pingOk, cmdOk) ==
    IF ~is_available(pingOk) THEN Result(PyNone, st)
    ELSE LET r == redis_get(st, key, cmdOk)
         IN IF r.exc THEN Propagate(st)
            ELSE IF r.val = PyNone THEN Result(PyNone, st)
            ELSE Deserialized(deserialize_data(r.val), st, Propagate(st))

CacheManager_get(st, key, pingOk, cmdOk) ==
    IF ~is_available(pingOk) THEN Result(PyNone, st)
    ELSE LET r == redis_get(st, key, cmdOk)
         IN IF r.exc THEN Result(PyNone, st)
            ELSE IF r.val = PyNone THEN Result(PyNone, st)
            ELSE Deserialized(deserialize_data(r.val), st, Result(PyNone, st))

CacheManager_delete(st, key, pingOk, cmdOk) ==
    IF ~is_available(pingOk) THEN Result(FALSE, st)
    ELSE LET r == redis_delete(st, {key}, cmdOk)
         IN IF r.exc THEN Result(FALSE, st) ELSE Result(r.val # 0, r.st)

CacheManager_exists(st, key, pingOk, cmdOk) ==
    IF ~is_available(pingOk) THEN Result(FALSE, st)
    ELSE LET r == redis_exists(st, key, cmdOk)
         IN IF r.exc THEN Result(FALSE, st) ELSE Result(r.val # 0, st)

\* keysOk / delOk: whether the server answers KEYS and the DEL after it.
CacheManager_clear_pattern(st, pattern, pingOk, keysOk, delOk) ==
    IF ~is_available(pingOk) THEN Result(0, st)
    ELSE LET ks == redis_keys(st, pattern, keysOk)
         IN IF ks.exc THEN Result(0, st)
            ELSE IF ks.val # {}
            THEN LET r == redis_delete(st, ks.val, delOk)
                 IN IF r.exc THEN Result(0, st) ELSE Result(r.val, r.st)
            ELSE Result(0, st)

CacheManager_get_ttl(st, key, pingOk, cmdOk) ==
    IF ~is_available(pingOk) THEN Result(-1, st)
    ELSE LET r == redis_ttl(st, key, cmdOk)
         IN IF r.exc THEN Result(-1, st) ELSE Result(r.val, st)

----------------------------------------------------------------------------
(* A Python dict is the sequence of its <<key, value>> items in insertion  *)
(* order, with distinct keys.                                              *)

DictKeys(d) == {d[i][1] : i \in 1..Len(d)}
DictGet(d, k) == d[CHOOSE i \in 1..Len(d) : d[i][1] = k][2]

\* x put before the first item of the sorted s whose key is greater
RECURSIVE InsertItem(_, _)
InsertItem(x, s) ==
    IF Len(s) = 0 THEN <<x>>
    ELSE IF StrLess(x[1], s[1][1]) THEN <<x>> \o s
    ELSE <<s[1]>> \o InsertItem(x, Tail(s))

\* sorted(items) by key
RECURSIVE SortItems(_)
SortItems(items) ==
    IF Len(items) = 0 THEN <<>>
    ELSE InsertItem(items[1], SortItems(Tail(items)))

\* JSON text of None, an int, or a str without characters that need escaping
JsonScalar(x) ==
    CASE x.t = "None" -> "null"
      [] x.t = "int" -> ToString(x.v)
      [] x.t = "str" -> "\"" \o x.v \o "\""

RECURSIVE JoinItems(_)
JoinItems(items) ==
    IF Len(items) = 0 THEN ""
    ELSE LET head == "\"" \o items[1][1] \o "\": " \o JsonScalar(items[1][2])
         IN IF Len(items) = 1 THEN head
            ELSE head \o ", " \o JoinItems(Tail(items))

json_dumps_Unsorted(params, sort_keys) == "{" \o JoinItems(params) \o "}"

\* json.dumps(params, sort_keys=...) of a flat dict
json_dumps(params, sort_keys) ==
    "{" \o JoinItems(IF sort_keys THEN SortItems(params) ELSE params) \o "}"

\* hashlib.md5(s.encode()).hexdigest(), tabulated for the texts of these
\* specifications.
md5_hexdigest(s) ==
    CASE s = "{\"page\": 1, \"per_page\": 20, \"search\": null, \"sort\": null, \"type\": null}" -> "96c87bd62b239c2ae417ddeab93dca6b"
      [] s = "{\"page\": 1, \"per_page\": 20, \"search\": null, \"type\": null, \"sort\": null}" -> "d946f0df25870b9d6fa2752972768b3b"
      [] s = "{\"sort\": null, \"type\": null, \"search\": null, \"per_page\": 20, \"page\": 1}" -> "2c79a978b559046d79fb50921b9c5bd8"
      [] s = "{\"page\": 2, \"per_page\": 20, \"search\": null, \"sort\": null, \"type\": null}" -> "1d1568d969f7893abc26d102953fa6f8"
      [] s = "{\"page\": 2, \"per_page\": 20, \"search\": null, \"type\": null, \"sort\": null}" -> "ef4d222132e8d5e45f078a4b5301b8d3"
      [] s = "{\"sort\": null, \"type\": null, \"search\": null, \"per_page\": 20, \"page\": 2}" -> "bfa2900ff49d4b8a06373a86885230fe"
      [] s = "{\"page\": 89290, \"per_page\": 20, \"search\": null, \"sort\": null, \"type\": null}" -> "ceccd120fb2be0da39725752e1f95707"
      [] s = "{\"page\": 89290, \"per_page\": 20, \"search\": null, \"type\": null, \"sort\": null}" -> "dd203331e68176f02eb60bed851815da"
      [] s = "{\"sort\": null, \"type\": null, \"search\": null, \"per_page\": 20, \"page\": 89290}" -> "bc06484d0ed3d0594129742c2cacbd8f"
      [] s = "{\"page\": 126363, \"per_page\": 20, \"search\": null, \"sort\": null, \"type\": null}" -> "ceccd1200961b4c7ea238d5fab446eaf"
      [] s = "{\"page\": 126363, \"per_page\": 20, \"search\": null, \"type\": null, \"sort\": null}" -> "fd550b2ee6312c35719b257b21e1322c"
      [] s = "{\"sort\": null, \"type\": null, \"search\": null, \"per_page\": 20, \"page\": 126363}" -> "bb5e13aedb38b116ca01b09ebd088b41"
      [] s = "{\"page\": 1, \"per_page\": 50, \"search\": null, \"sort\": null, \"type\": null}" -> "a19737ffc6b6e9519b9e779ea1767640"
      [] s = "{\"page\": 1, \"per_page\": 50, \"search\": null, \"type\": null, \"sort\": null}" -> "7bde86cb970542bcd0ddba3daeb975ce"
      [] s = "{\"sort\": null, \"type\": null, \"search\": null, \"per_page\": 50, \"page\": 1}" -> "a70b1049a1dda13009adff12fc5d3960"
      [] s = "{\"page\": 1, \"per_page\": 20, \"search\": \"char\", \"sort\": null, \"type\": null}" -> "235505a12217159fc5251a93d5b8eb12"
      [] s = "{\"page\": 1, \"per_page\": 20, \"search\": \"char\", \"type\": null, \"sort\": null}" -> "deb73dc21aad0c72768b8f0a7dd852c1"
      [] s = "{\"sort\": null, \"type\": null, \"search\": \"char\", \"per_page\": 20, \"page\": 1}" -> "2828736b42cab0445ab620c21e8e7ba0"
      [] s = "{\"page\": 1, \"per_page\": 20, \"search\": null, \"sort\": null, \"type\": \"fire\"}" -> "8edfab76500a431262f3a34ef4696528"
      [] s = "{\"page\": 1, \"per_page\": 20, \"search\": null, \"type\": \"fire\", \"sort\": null}" -> "72d8a682b68d4c104b4a0e99eea5f356"
      [] s = "{\"sort\": null, \"type\": \"fire\", \"search\": null, \"per_page\": 20, \"page\": 1}" -> "120e54458c41fcc6a6f0bb92508adf86"
      [] s = "{\"page\": 1, \"per_page\": 20, \"search\": null, \"sort\": \"favorites\", \"type\": null}" -> "a3dac154ff47cfcd6c9a49c8243072b6"
      [] s = "{\"page\": 1, \"per_page\": 20, \"search\": null, \"type\": null, \"sort\": \"favorites\"}" -> "edd5fc010cf1272b2f7c393d0b8faef4"
      [] s = "{\"sort\": \"favorites\", \"type\": null, \"search\": null, \"per_page\": 20, \"page\": 1}" -> "64b01501061810521504a10e8a75d513"
      [] s = "{\"page\": 1, \"per_page\": 20, \"search\": null, \"sort\": \"favorites\", \"type\": null, \"user_id\": null}" -> "006f496610b6c37381772cdb3e0c4e1c"
      [] s = "{\"page\": 1, \"per_page\": 20, \"search\": null, \"type\": null, \"sort\": \"favorites\", \"user_id\": null}" -> "a99b4aaa9d11c221da5b801b92ed963d"
      [] s = "{\"user_id\": null, \"sort\": \"favorites\", \"type\": null, \"search\": null, \"per_page\": 20, \"page\": 1}" -> "7489f266f63d92a12f0ce1dfd5c2fd6f"
      [] s = "{\"page\": 1, \"per_page\": 20, \"search\": null, \"sort\": \"favorites\", \"type\": null, \"user_id\": 1}" -> "1d5ca0bffbaec15d875b4afa7e474c30"
      [] s = "{\"page\": 1, \"per_page\": 20, \"search\": null, \"type\": null, \"sort\": \"favorites\", \"user_id\": 1}" -> "9436ce6e0a24ebc1b015028e278897c1"
      [] s = "{\"user_id\": 1, \"sort\": \"favorites\", \"type\": null, \"search\": null, \"per_page\": 20, \"page\": 1}" -> "dc6914477cecc037964dc6292de725b8"
      [] s = "{\"page\": 1, \"per_page\": 20, \"search\": null, \"sort\": \"favorites\", \"type\": null, \"user_id\": 2}" -> "b5411047a901706084943488c1424100"
      [] s = "{\"page\": 1, \"per_page\": 20, \"search\": null, \"type\": null, \"sort\": \"favorites\", \"user_id\": 2}" -> "26b5ace878634102a8abf776c0139815"
      [] s = "{\"user_id\": 2, \"sort\": \"favorites\", \"type\": null, \"search\": null, \"per_page\": 20, \"page\": 1}" -> "8f1939e0e2c604de0a5183c513f3e421"
      [] s = "{\"page\": 1, \"per_page\": 20, \"search\": null, \"sort\": \"favorites\", \"type\": null, \"user_id\": 65053}" -> "7aaa83044da58f836642d86a0838633c"
      [] s = "{\"page\": 1, \"per_page\": 20, \"search\": null, \"sort\": \"favorites\", \"type\": null, \"user_id\": 85151}" -> "7aaa8304aae332ca0f673379f06eef6d"
      [] s = "{\"page\": -1, \"per_page\": 0, \"search\": null, \"sort\": \"favorites\", \"type\": null, \"user_id\": 1}" -> "11f923816100f023acadc7b861c3f9a6"
      [] s = "{\"page\": -1, \"per_page\": 0, \"search\": \"saur\", \"sort\": \"favorites\", \"type\": null, \"user_id\": 1}" -> "cb89a841f8d563df47d4fc40433e2929"
      [] s = "{\"page\": -1, \"per_page\": 0, \"search\": null, \"sort\": \"favorites\", \"type\": \"fire\", \"user_id\": 1}" -> "e59117de4088711525d067611c53c5c3"
      [] s = "{\"page\": -1, \"per_page\": 1, \"search\": null, \"sort\": \"favorites\", \"type\": null, \"user_id\": 1}" -> "7448f045eac8a6c6ea3c31f2f50608bf"
      [] s = "{\"page\": -1, \"per_page\": 1, \"search\": \"saur\", \"sort\": \"favorites\", \"type\": null, \"user_id\": 1}" -> "5686b0608aa0a7341ed5e0c6b850efae"
      [] s = "{\"page\": -1, \"per_page\": 1, \"search\": null, \"sort\": \"favorites\", \"type\": \"fire\", \"user_id\": 1}" -> "7b2c3c6c239ea733adc2bb24698e4b78"
      [] s = "{\"page\": -1, \"per_page\": 2, \"search\": null, \"sort\": \"favorites\", \"type\": null, \"user_id\": 1}" -> "f64b918bdc926ecf2046067c80d30d19"
      [] s = "{\"page\": -1, \"per_page\": 2, \"search\": \"saur\", \"sort\": \"favorites\", \"type\": null, \"user_id\": 1}" -> "970a0b40b774a1c55f506545df115bdd"
      [] s = "{\"page\": -1, \"per_page\": 2, \"search\": null, \"sort\": \"favorites\", \"type\": \"fire\", \"user_id\": 1}" -> "a020daf6c14b6db9547cb90d51b11e86"
      [] s = "{\"page\": -1, \"per_page\": 101, \"search\": null, \"sort\": \"favorites\", \"type\": null, \"user_id\": 1}" -> "21c9b139a6df5c4880a2b1283d95810a"
      [] s = "{\"page\": -1, \"per_page\": 101, \"search\": \"saur\", \"sort\": \"favorites\", \"type\": null, \"user_id\": 1}" -> "f22ad3dcddec4dde78dfda671f793567"
      [] s = "{\"page\": -1, \"per_page\": 101, \"search\": null, \"sort\": \"favorites\", \"type\": \"fire\", \"user_id\": 1}" -> "305631a2dffe37371e4cda90f3406372"
      [] s = "{\"page\": 1, \"per_page\": 0, \"search\": null, \"sort\": \"favorites\", \"type\": null, \"user_id\": 1}" -> "48dd2ab251b1dfb205e8534bae921386"
      [] s = "{\"page\": 1, \"per_page\": 0, \"search\": \"saur\", \"sort\": \"favorites\", \"type\": null, \"user_id\": 1}" -> "d0d1a4f8eb1f5db44043cca133f90d92"
      [] s = "{\"page\": 1, \"per_page\": 0, \"search\": null, \"sort\": \"favorites\", \"type\": \"fire\", \"user_id\": 1}" -> "4dc7837b2209a07de4b2a4efcc2481f8"
      [] s = "{\"page\": 1, \"per_page\": 1, \"search\": null, \"sort\": \"favorites\", \"type\": null, \"user_id\": 1}" -> "60e6fa0bc0ecbf7d71e7eb4436c10973"
      [] s = "{\"page\": 1, \"per_page\": 1, \"search\": \"saur\", \"sort\": \"favorites\", \"type\": null, \"user_id\": 1}" -> "c29fa2229c0e19b9222afb242c20d36b"
      [] s = "{\"page\": 1, \"per_page\": 1, \"search\": null, \"sort\": \"favorites\", \"type\": \"fire\", \"user_id\": 1}" -> "1d97283551c9a745492477f3778dadde"
      [] s = "{\"page\": 1, \"per_page\": 2, \"search\": null, \"sort\": \"favorites\", \"type\": null, \"user_id\": 1}" -> "880c2c142d1f1e07bf4e6b91f33f120e"
      [] s = "{\"page\": 1, \"per_page\": 2, \"search\": \"saur\", \"sort\": \"favorites\", \"type\": null, \"user_id\": 1}" -> "734d06e97c1d6644733723b64df0c2f8"
      [] s = "{\"page\": 1, \"per_page\": 2, \"search\": null, \"sort\": \"favorites\", \"type\": \"fire\", \"user_id\": 1}" -> "fc52be60273061a18b675d94f9f2d99d"
      [] s = "{\"page\": 1, \"per_page\": 101, \"search\": null, \"sort\": \"favorites\", \"type\": null, \"user_id\": 1}" -> "cff88a04d2ddbe5b060453621fbc0288"
      [] s = "{\"page\": 1, \"per_page\": 101, \"search\": \"saur\", \"sort\": \"favorites\", \"type\": null, \"user_id\": 1}" -> "650137492f4a7555cfb85493ffd4bfb6"
      [] s = "{\"page\": 1, \"per_page\": 101, \"search\": null, \"sort\": \"favorites\", \"type\": \"fire\", \"user_id\": 1}" -> "594f09d060b68657b2fbdf872a692420"
      [] s = "{\"page\": 2, \"per_page\": 0, \"search\": null, \"sort\": \"favorites\", \"type\": null, \"user_id\": 1}" -> "b3394a3127b2e30f7cb4f550c3e7e4fa"
      [] s = "{\"page\": 2, \"per_page\": 0, \"search\": \"saur\", \"sort\": \"favorites\", \"type\": null, \"user_id\": 1}" -> "e8e9a951dfe1d6dc12229353f958bb72"
      [] s = "{\"page\": 2, \"per_page\": 0, \"search\": null, \"sort\": \"favorites\", \"type\": \"fire\", \"user_id\": 1}" -> "95d95437d9c18477614d3dcf10fdc747"
      [] s = "{\"page\": 2, \"per_page\": 1, \"search\": null, \"sort\": \"favorites\", \"type\": null, \"user_id\": 1}" -> "193c3c84260685f21890cc959369a685"
      [] s = "{\"page\": 2, \"per_page\": 1, \"search\": \"saur\", \"sort\": \"favorites\", \"type\": null, \"user_id\": 1}" -> "c4f671a5d5f4e39bd3ccd0fbb23ee2c5"
      [] s = "{\"page\": 2, \"per_page\": 1, \"search\": null, \"sort\": \"favorites\", \"type\": \"fire\", \"user_id\": 1}" -> "dc9a888caf307b7c6bbde8aad3beff43"
      [] s = "{\"page\": 2, \"per_page\": 2, \"search\": null, \"sort\": \"favorites\", \"type\": null, \"user_id\": 1}" -> "0f7e6e1a529bddbef4b4a4bae1f8a373"
      [] s = "{\"page\": 2, \"per_page\": 2, \"search\": \"saur\", \"sort\": \"favorites\", \"type\": null, \"user_id\": 1}" -> "93bf5e3185d6c1f50a1488addec48d7e"
      [] s = "{\"page\": 2, \"per_page\": 2, \"search\": null, \"sort\": \"favorites\", \"type\": \"fire\", \"user_id\": 1}" -> "c642cf9cf95da79a4ff28b2712a59239"
      [] s = "{\"page\": 2, \"per_page\": 101, \"search\": null, \"sort\": \"favorites\", \"type\": null, \"user_id\": 1}" -> "81ffcbf0f222728f4caa64f42ce12b19"
      [] s = "{\"page\": 2, \"per_page\": 101, \"search\": \"saur\", \"sort\": \"favorites\", \"type\": null, \"user_id\": 1}" -> "67aea5061c0ea55da73ca9217fc30eea"
      [] s = "{\"page\": 2, \"per_page\": 101, \"search\": null, \"sort\": \"favorites\", \"type\": \"fire\", \"user_id\": 1}" -> "d89a6b4d31985c4c5fa23d39f92f2c3e"
      [] s = "{\"page\": 3, \"per_page\": 0, \"search\": null, \"sort\": \"favorites\", \"type\": null, \"user_id\": 1}" -> "c872e8d2ed044c03e4318e4b197c7bcc"
      [] s = "{\"page\": 3, \"per_page\": 0, \"search\": \"saur\", \"sort\": \"favorites\", \"type\": null, \"user_id\": 1}" -> "6bf17bc6eb02a08738040f9f667bf328"
      [] s = "{\"page\": 3, \"per_page\": 0, \"search\": null, \"sort\": \"favorites\", \"type\": \"fire\", \"user_id\": 1}" -> "8ecd0d67fdf5bb26e2a2eeba0f20ba4d"
      [] s = "{\"page\": 3, \"per_page\": 1, \"search\": null, \"sort\": \"favorites\", \"type\": null, \"user_id\": 1}" -> "8c6f5939f1f162eb67647be69f283371"
      [] s = "{\"page\": 3, \"per_page\": 1, \"search\": \"saur\", \"sort\": \"favorites\", \"type\": null, \"user_id\": 1}" -> "029b649e9f9508b119377362bf24b020"
      [] s = "{\"page\": 3, \"per_page\": 1, \"search\": null, \"sort\": \"favorites\", \"type\": \"fire\", \"user_id\": 1}" -> "45249461ecfe74f53278a2077d940753"
      [] s = "{\"page\": 3, \"per_page\": 2, \"search\": null, \"sort\": \"favorites\", \"type\": null, \"user_id\": 1}" -> "0112a714b192bc73ace44c9b052b5c0e"
      [] s = "{\"page\": 3, \"per_page\": 2, \"search\": \"saur\", \"sort\": \"favorites\", \"type\": null, \"user_id\": 1}" -> "49b6189f1acf950fdf98d9bf074021eb"
      [] s = "{\"page\": 3, \"per_page\": 2, \"search\": null, \"sort\": \"favorites\", \"type\": \"fire\", \"user_id\": 1}" -> "b4c1e4e8bc2b795a7f8010b53b483dd7"
      [] s = "{\"page\": 3, \"per_page\": 101, \"search\": null, \"sort\": \"favorites\", \"type\": null, \"user_id\": 1}" -> "d47a555e2412c3b7ff4ebdb3ce6466cd"
      [] s = "{\"page\": 3, \"per_page\": 101, \"search\": \"saur\", \"sort\": \"favorites\", \"type\": null, \"user_id\": 1}" -> "4c44d960cba76af2da62643f61f7524f"
      [] s = "{\"page\": 3, \"per_page\": 101, \"search\": null, \"sort\": \"favorites\", \"type\": \"fire\", \"user_id\": 1}" -> "af93a8b149dcc527602c292f93dfe1ed"

----------------------------------------------------------------------------
(* PokemonCache *)

pokemon_prefix == "pokemon"
list_prefix == "pokemon_list"
search_prefix == "pokemon_search"
type_prefix == "pokemon_type"

PokemonKey(pokemon_id) == generate_key(pokemon_prefix, PyInt(pokemon_id), <<>>)

ListKey_PageOnly(params) ==
    generate_key(list_prefix, PyStr(ToString(DictGet(params, "page").v)), <<>>)

\* The key of cache_pokemon_list / get_pokemon_list
ListKey(params) ==
    LET param_str == json_dumps(params, TRUE)
        param_hash == SubSeq(md5_hexdigest(param_str), 1, 8)
    IN generate_key(list_prefix, PyStr(param_hash), <<>>)

SearchKey_AsGiven(search_term) == generate_key(search_prefix, PyStr(search_term), <<>>)

SearchKey(search_term) == generate_key(search_prefix, PyStr(Lower(search_term)), <<>>)

TypeKey(pokemon_type) == generate_key(type_prefix, PyStr(Lower(pokemon_type)), <<>>)

cache_pokemon_KeepFirst(st, pokemon_id, pokemon_data, ttl, pingOk, cmdOk) ==
    IF PokemonKey(pokemon_id) \in DOMAIN st
    THEN Result(is_available(pingOk) /\ cmdOk, st)
    ELSE CacheManager_set(st, PokemonKey(pokemon_id), pokemon_data, ttl, pingOk, cmdOk)

cache_pokemon(st, pokemon_id, pokemon_data, ttl, pingOk, cmdOk) ==
    CacheManager_set(st, PokemonKey(pokemon_id), pokemon_data, ttl, pingOk, cmdOk)

get_pokemon(st, pokemon_id, pingOk, cmdOk) ==
    CacheManager_get(st, PokemonKey(pokemon_id), pingOk, cmdOk)

cache_pokemon_list(st, params, pokemon_list, ttl, pingOk, cmdOk) ==
    CacheManager_set(st, ListKey(params), pokemon_list, ttl, pingOk, cmdOk)

get_pokemon_list(st, params, pingOk, cmdOk) ==
    CacheManager_get(st, ListKey(params), pingOk, cmdOk)

cache_search_results(st, search_term, results, ttl, pingOk, cmdOk) ==
    CacheManager_set(st, SearchKey(search_term), results, ttl, pingOk, cmdOk)

get_search_results(st, search_term, pingOk, cmdOk) ==
    CacheManager_get(st, SearchKey(search_term), pingOk, cmdOk)

cache_type_filter(st, pokemon_type, results, ttl, pingOk, cmdOk) ==
    CacheManager_set(st, TypeKey(pokemon_type), results, ttl, pingOk, cmdOk)

get_type_filter(st, pokemon_type, pingOk, cmdOk) ==
    CacheManager_get(st, TypeKey(pokemon_type), pingOk, cmdOk)

ClearPattern_RetryDelete(st, pattern, a) ==
    CacheManager_clear_pattern(st, pattern, a[1], a[2], a[2])

\* a: the server's answers <<pingOk, keysOk, delOk>> to one clear_pattern call
ClearPattern(st, pattern, a) ==
    CacheManager_clear_pattern(st, pattern, a[1], a[2], a[3])

clear_pokemon_cache_NoColon(st, pokemon_id, a) ==
    IF Truthy(pokemon_id)
    THEN LET r == CacheManager_delete(st, PokemonKey(pokemon_id.v), a[1], a[2])
         IN Result(IF r.val THEN 1 ELSE 0, r.st)
    ELSE ClearPattern(st, pokemon_prefix \o "*", a)

\* clear_pokemon_cache(pokemon_id): pokemon_id is None or an int
clear_pokemon_cache(st, pokemon_id, a) ==
    IF Truthy(pokemon_id)
    THEN LET r == CacheManager_delete(st, PokemonKey(pokemon_id.v), a[1], a[2])
         IN Result(IF r.val THEN 1 ELSE 0, r.st)
    ELSE ClearPattern(st, pokemon_prefix \o ":*", a)

clear_list_cache(st, a) == ClearPattern(st, list_prefix \o ":*", a)

clear_search_cache(st, a) == ClearPattern(st, search_prefix \o ":*", a)

clear_type_cache(st, a) == ClearPattern(st, type_prefix \o ":*", a)

clear_all_pokemon_cache_NoType(st, as) ==
    LET r1 == clear_pokemon_cache(st, PyNone, as[1])
        r2 == clear_list_cache(r1.st, as[2])
        r3 == clear_search_cache(r2.st, as[3])
    IN Result(0 + r1.val + r2.val + r3.val, r3.st)

\* as: the answers to the four clears, in order
clear_all_pokemon_cache(st, as) ==
    LET r1 == clear_pokemon_cache(st, PyNone, as[1])
        r2 == clear_list_cache(r1.st, as[2])
        r3 == clear_search_cache(r2.st, as[3])
        r4 == clear_type_cache(r3.st, as[4])
    IN Result(0 + r1.val + r2.val + r3.val + r4.val, r4.st)

----------------------------------------------------------------------------
(* PokeAPICache *)

pokeapi_prefix == "pokeapi"
pokeapi_pokemon_prefix == "pokeapi_pokemon"
species_prefix == "pokeapi_species"
evolution_prefix == "pokeapi_evolution"

cache_pokemon_data(st, pokemon_id, pokemon_data, ttl, pingOk, cmdOk) ==
    CacheManager_set(st, generate_key(pokeapi_pokemon_prefix, PyInt(pokemon_id), <<>>),
                     pokemon_data, ttl, pingOk, cmdOk)

get_pokemon_data(st, pokemon_id, pingOk, cmdOk) ==
    CacheManager_get(st, generate_key(pokeapi_pokemon_prefix, PyInt(pokemon_id), <<>>),
                     pingOk, cmdOk)

cache_species_data(st, pokemon_id, species_data, ttl, pingOk, cmdOk) ==
    CacheManager_set(st, generate_key(species_prefix, PyInt(pokemon_id), <<>>),
                     species_data, ttl, pingOk, cmdOk)

get_species_data(st, pokemon_id, pingOk, cmdOk) ==
    CacheManager_get(st, generate_key(species_prefix, PyInt(pokemon_id), <<>>),
                     pingOk, cmdOk)

cache_evolution_chain(st, chain_id, evolution_data, ttl, pingOk, cmdOk) ==
    CacheManager_set(st, generate_key(evolution_prefix, PyInt(chain_id), <<>>),
                     evolution_data, ttl, pingOk, cmdOk)

get_evolution_chain(st, chain_id, pingOk, cmdOk) ==
    CacheManager_get(st, generate_key(evolution_prefix, PyInt(chain_id), <<>>),
                     pingOk, cmdOk)

clear_pokeapi_cache(st, a) == ClearPattern(st, pokeapi_prefix \o ":*", a)

\* The module-level clear_all_cache(): as holds the answers to the five clears.
clear_all_cache(st, as) ==
    LET p == clear_all_pokemon_cache(st, SubSeq(as, 1, 4))
        q == clear_pokeapi_cache(p.st, as[5])
    IN Result([pokemon_cache |-> p.val, pokeapi_cache |-> q.val,
               total_keys |-> p.val + q.val + 0], q.st)

----------------------------------------------------------------------------
(* Environment shared by every specification *)

\* What the server may answer to one command: nothing during an outage; during
\* normal operation a single command may still time out or lose its connection.
Answers == IF backendUp THEN BOOLEAN ELSE {FALSE}

\* ret and resp hold the outcome of the call made by the last step; a step of
\* the environment (outage, recovery, time passing) leaves no outcome.
NoRet == [op |-> "none"]
NoResp == [op |-> "none"]

Outage ==
    /\ backendUp
    /\ backendUp' = FALSE
    /\ ret' = NoRet
    /\ resp' = NoResp
    /\ UNCHANGED <<running, connected, store, db, favorites, written>>

Recover ==
    /\ ~backendUp
    /\ backendUp' = TRUE
    /\ ret' = NoRet
    /\ resp' = NoResp
    /\ UNCHANGED <<running, connected, store, db, favorites, written>>

\* The age of each recorded write after d more seconds, counted up to its ttl.
Aged(w, d) ==
    [k \in DOMAIN w |->
        [w[k] EXCEPT !.age = IF @ + d > w[k].ttl THEN w[k].ttl ELSE @ + d]]

\* d seconds pass
Elapse(d) ==
    /\ store' = Expire(store, d)
    /\ written' = Aged(written, d)
    /\ store' # store \/ written' # written
    /\ ret' = NoRet
    /\ resp' = NoResp
    /\ UNCHANGED <<running, connected, backendUp, db, favorites>>

----------------------------------------------------------------------------
(* SpecStore: the CacheManager methods called directly *)

MaxTtl == 2

Payload(name) == [t |-> "dict", name |-> name]

StoreKeys == {"pokemon:25", "pokemon_search:char"}
StoreValues == {Payload("pikachu"), Payload("charmander")}
StoreTtls == {PyNone} \cup {PyInt(n) : n \in -1..MaxTtl}

\* The outcome of a call: what it returned, whether it raised, and whether the
\* server answered everything the call asked of it.
Outcome(op, key, r, answered) ==
    [op |-> op, key |-> key, val |-> r.val, raised |-> r.raised,
     reached |-> connected /\ answered]

StoreInit ==
    /\ connected \in BOOLEAN
    /\ backendUp \in BOOLEAN
    /\ store = <<>>
    /\ ret = NoRet
    /\ db = <<>>
    /\ favorites = <<>>
    /\ resp = NoResp
    /\ written = <<>>
    /\ running = <<>>

DoSet(key, value, ttl) ==
    \E pingOk \in Answers, cmdOk \in Answers :
        LET r == CacheManager_set(store, key, value, ttl, pingOk, cmdOk) IN
        /\ store' = r.st
        /\ ret' = Outcome("set", key, r, pingOk /\ cmdOk)
        /\ written' = IF r.val # TRUE THEN written
                      ELSE IF Truthy(ttl)
                      THEN Put(written, key, [value |-> value, ttl |-> ttl.v, age |-> 0])
                      ELSE Drop(written, {key})
        /\ UNCHANGED <<running, connected, backendUp, db, favorites, resp>>

DoGet(key) ==
    \E pingOk \in Answers, cmdOk \in Answers :
        LET r == CacheManager_get(store, key, pingOk, cmdOk) IN
        /\ store' = r.st
        /\ ret' = Outcome("get", key, r, pingOk /\ cmdOk)
        /\ UNCHANGED <<running, connected, backendUp, db, favorites, resp, written>>

DoDelete(key) ==
    \E pingOk \in Answers, cmdOk \in Answers :
        LET r == CacheManager_delete(store, key, pingOk, cmdOk) IN
        /\ store' = r.st
        /\ ret' = Outcome("delete", key, r, pingOk /\ cmdOk)
        /\ written' = Drop(written, DOMAIN store \ DOMAIN r.st)
        /\ UNCHANGED <<running, connected, backendUp, db, favorites, resp>>

DoExists(key) ==
    \E pingOk \in Answers, cmdOk \in Answers :
        LET r == CacheManager_exists(store, key, pingOk, cmdOk) IN
        /\ store' = r.st
        /\ ret' = Outcome("exists", key, r, pingOk /\ cmdOk)
        /\ UNCHANGED <<running, connected, backendUp, db, favorites, resp, written>>

DoClearPattern(pattern) ==
    \E pingOk \in Answers, keysOk \in Answers, delOk \in Answers :
        LET r == CacheManager_clear_pattern(store, pattern, pingOk, keysOk, delOk) IN
        /\ store' = r.st
        /\ ret' = Outcome("clear_pattern", pattern, r, pingOk /\ keysOk /\ delOk)
        /\ written' = Drop(written, DOMAIN store \ DOMAIN r.st)
        /\ UNCHANGED <<running, connected, backendUp, db, favorites, resp>>

DoGetTtl(key) ==
    \E pingOk \in Answers, cmdOk \in Answers :
        LET r == CacheManager_get_ttl(store, key, pingOk, cmdOk) IN
        /\ store' = r.st
        /\ ret' = Outcome("get_ttl", key, r, pingOk /\ cmdOk)
        /\ UNCHANGED <<running, connected, backendUp, db, favorites, resp, written>>

DoIsAvailable ==
    \E pingOk \in Answers :
        /\ ret' = [op |-> "is_available", key |-> "", val |-> is_available(pingOk),
                   raised |-> FALSE, reached |-> connected /\ pingOk]
        /\ UNCHANGED <<running, connected, backendUp, store, db, favorites, resp, written>>

StoreNext ==
    \/ Outage
    \/ Recover
    \/ Elapse(1)
    \/ \E k \in StoreKeys, v \in StoreValues, t \in StoreTtls : DoSet(k, v, t)
    \/ \E k \in StoreKeys : DoGet(k)
    \/ \E k \in StoreKeys : DoDelete(k)
    \/ \E k \in StoreKeys : DoExists(k)
    \/ \E p \in {"pokemon:*", "pokemon_search:*"} : DoClearPattern(p)
    \/ \E k \in StoreKeys : DoGetTtl(k)
    \/ DoIsAvailable

SpecStore == StoreInit /\ [][StoreNext]_vars

\* C1: every CacheManager method is fail-open.  Whenever the client never
\* connected, the probe fails, or the server fails between the probe and the
\* command, get returns None, set / delete / exists / is_available return
\* False, clear_pattern returns 0 and get_ttl returns -1; and no call raises.
FailOpen ==
    /\ ret.op # "none" => ~ret.raised
    /\ (ret.op # "none" /\ ~ret.reached) =>
          CASE ret.op = "get" -> ret.val = PyNone
            [] ret.op \in {"set", "delete", "exists", "is_available"} -> ret.val = FALSE
            [] ret.op = "clear_pattern" -> ret.val = 0
            [] ret.op = "get_ttl" -> ret.val = -1

\* A get whose command failed after the probe had succeeded, with the key present.
FailOpenWitness ==
    /\ ret.op = "get"
    /\ connected /\ backendUp /\ ~ret.reached
    /\ ret.key \in DOMAIN store
    /\ ret.val = PyNone

\* Whether the write recorded for key k is still within its lifetime.
Live(k) == written[k].age < written[k].ttl

\* C11: TTL is respected.  An entry written by set(key, value, ttl = t) with
\* t > 0 is in the store, and is what a get(key) answered by the server
\* returns, from the write until t seconds have elapsed (unless the key is
\* deleted or set anew); once t seconds have elapsed the entry is gone,
\* get(key) returns None and exists(key) returns False.
TtlRespected ==
    /\ \A k \in DOMAIN written :
          IF Live(k)
          THEN /\ k \in DOMAIN store
               /\ deserialize_data(store[k].val).val = written[k].value
          ELSE k \notin DOMAIN store
    /\ (ret.op = "get" /\ ret.reached /\ ret.key \in DOMAIN written) =>
          ret.val = IF Live(ret.key) THEN written[ret.key].value ELSE PyNone
    /\ (ret.op = "exists" /\ ret.key \in DOMAIN written /\ ~Live(ret.key)) =>
          ret.val = FALSE

\* A get answered by the server once the longest lifetime has run out.
TtlRespectedWitness ==
    /\ ret.op = "get" /\ ret.reached
    /\ ret.key \in DOMAIN written
    /\ written[ret.key].ttl = MaxTtl
    /\ written[ret.key].age = MaxTtl
    /\ ret.val = PyNone

----------------------------------------------------------------------------
(* SpecNs: the namespaced caches and their bulk clears *)

MaxNsId == 2

DetailTtl == 3600
ListTtl == 300
PokeapiTtl == 86400

NsIds == 1..MaxNsId
PokeapiIds == {1}
NsTerms == {"Char", "char"}
NsTypes == {"Fire"}
NsResult == Payload("r")

\* Request parameters as PokemonList.get builds them (insertion order of the
\* dict literal); user: Absent for no user_id item, else the item's value.
Absent == [t |-> "absent"]

ListParams(page, per_page, search, type, sort, user) ==
    << <<"page", page>>, <<"per_page", per_page>>, <<"search", search>>,
       <<"type", type>>, <<"sort", sort>> >>
    \o (IF user = Absent THEN <<>> ELSE << <<"user_id", user>> >>)

BaseParams == ListParams(PyInt(1), PyInt(20), PyNone, PyNone, PyNone, Absent)
Page2Params == ListParams(PyInt(2), PyInt(20), PyNone, PyNone, PyNone, Absent)
NsParams == {BaseParams}

\* The server's answers <<pingOk, keysOk, delOk>> to one clear_pattern call;
\* once it stops answering it stays silent for the rest of the call.
CallAnswers ==
    {a \in Answers \X Answers \X Answers : (~a[1] => ~a[2]) /\ (~a[2] => ~a[3])}

\* The answers to the n clears of a bulk clear: any subset of the clears may
\* go unanswered.  A clear that fails returns 0 and removes nothing wherever
\* it fails (the single clears draw every failure point).
BulkAnswers(n) ==
    {[i \in 1..n |-> IF ok[i] THEN <<TRUE, TRUE, TRUE>> ELSE <<FALSE, FALSE, FALSE>>] :
        ok \in [1..n -> Answers]}

AllAnswered(as) == \A i \in 1..Len(as) : as[i][1] /\ as[i][2] /\ as[i][3]

\* The namespace of a key: its text before the first ':'
RECURSIVE NamespaceOf(_)
NamespaceOf(key) ==
    IF key = "" \/ SubSeq(key, 1, 1) = ":" THEN ""
    ELSE SubSeq(key, 1, 1) \o NamespaceOf(SubSeq(key, 2, Len(key)))

PokemonNamespaces == {pokemon_prefix, list_prefix, search_prefix, type_prefix}
PokeapiNamespaces == {pokeapi_pokemon_prefix, species_prefix, evolution_prefix}

KeysOf(st, namespaces) == {k \in DOMAIN st : NamespaceOf(k) \in namespaces}

\* A cache_* call: r is the method's result
NsWrite(op, r, answered) ==
    /\ store' = r.st
    /\ ret' = Outcome(op, "", r, answered)
    /\ UNCHANGED <<running, connected, backendUp, db, favorites, resp, written>>

NsCachePokemon ==
    \E id \in NsIds, p \in Answers, c \in Answers :
        NsWrite("cache_pokemon",
                cache_pokemon(store, id, NsResult, PyInt(DetailTtl), p, c), p /\ c)

NsCacheList ==
    \E params \in NsParams, p \in Answers, c \in Answers :
        NsWrite("cache_pokemon_list",
                cache_pokemon_list(store, params, NsResult, PyInt(ListTtl), p, c), p /\ c)

NsCacheSearch ==
    \E term \in NsTerms, p \in Answers, c \in Answers :
        NsWrite("cache_search_results",
                cache_search_results(store, term, NsResult, PyInt(ListTtl), p, c), p /\ c)

NsCacheType ==
    \E type \in NsTypes, p \in Answers, c \in Answers :
        NsWrite("cache_type_filter",
                cache_type_filter(store, type, NsResult, PyInt(ListTtl), p, c), p /\ c)

NsCachePokeapi ==
    \E id \in PokeapiIds, p \in Answers, c \in Answers :
        \/ NsWrite("cache_pokemon_data",
                   cache_pokemon_data(store, id, NsResult, PyInt(PokeapiTtl), p, c), p /\ c)
        \/ NsWrite("cache_species_data",
                   cache_species_data(store, id, NsResult, PyInt(PokeapiTtl), p, c), p /\ c)
        \/ NsWrite("cache_evolution_chain",
                   cache_evolution_chain(store, id, NsResult, PyInt(PokeapiTtl), p, c), p /\ c)

NsClearPokemon ==
    \E a \in CallAnswers :
        NsWrite("clear_pokemon_cache", clear_pokemon_cache(store, PyNone, a),
                AllAnswered(<<a>>))

NsClearPokemonId ==
    \E id \in NsIds, a \in CallAnswers :
        NsWrite("clear_pokemon_cache_id", clear_pokemon_cache(store, PyInt(id), a),
                AllAnswered(<<a>>))

NsClearList ==
    \E a \in CallAnswers :
        NsWrite("clear_list_cache", clear_list_cache(store, a), AllAnswered(<<a>>))

NsClearSearch ==
    \E a \in CallAnswers :
        NsWrite("clear_search_cache", clear_search_cache(store, a), AllAnswered(<<a>>))

NsClearType ==
    \E a \in CallAnswers :
        NsWrite("clear_type_cache", clear_type_cache(store, a), AllAnswered(<<a>>))

NsClearPokeapi ==
    \E a \in CallAnswers :
        NsWrite("clear_pokeapi_cache", clear_pokeapi_cache(store, a), AllAnswered(<<a>>))

NsClearAllPokemon ==
    \E as \in BulkAnswers(4) :
        NsWrite("clear_all_pokemon_cache", clear_all_pokemon_cache(store, as),
                AllAnswered(as))

NsClearAllCache ==
    \E as \in BulkAnswers(5) :
        NsWrite("clear_all_cache", clear_all_cache(store, as), AllAnswered(as))

NsNext ==
    \/ Outage
    \/ Recover
    \/ Elapse(PokeapiTtl)
    \/ NsCachePokemon
    \/ NsCacheList
    \/ NsCacheSearch
    \/ NsCacheType
    \/ NsCachePokeapi
    \/ NsClearPokemon
    \/ NsClearPokemonId
    \/ NsClearList
    \/ NsClearSearch
    \/ NsClearType
    \/ NsClearPokeapi
    \/ NsClearAllPokemon
    \/ NsClearAllCache

SpecNs == StoreInit /\ [][NsNext]_vars

\* The variables as an action property's subscript: ret and resp hold values of
\* different Python types from one call to the next, so they are compared by
\* their text.
observed ==
    <<connected, backendUp, store, ToString(ret), db, favorites, ToString(resp),
      written, running>>

\* Every entry outside the namespaces ns is left as it was by this step.
OthersKept(ns) ==
    \A k \in DOMAIN store :
        NamespaceOf(k) \notin ns => k \in DOMAIN store' /\ store'[k] = store[k]

\* C5: namespace isolation.  Each bulk clear (clear_pokemon_cache() with no
\* id, clear_list_cache, clear_search_cache, clear_type_cache,
\* clear_pokeapi_cache) removes only keys of its own namespace: every entry of
\* any other namespace present before the call is present with the same value
\* after it.
NamespaceIsolation ==
    [][ /\ ret'.op = "clear_pokemon_cache" => OthersKept({pokemon_prefix})
        /\ ret'.op = "clear_list_cache" => OthersKept({list_prefix})
        /\ ret'.op = "clear_search_cache" => OthersKept({search_prefix})
        /\ ret'.op = "clear_type_cache" => OthersKept({type_prefix})
        /\ ret'.op = "clear_pokeapi_cache" => OthersKept(PokeapiNamespaces) ]_observed

\* clear_pokemon_cache() removed both single-Pokemon entries and the list,
\* search and type entries are still there.
NamespaceIsolationWitness ==
    /\ ret.op = "clear_pokemon_cache"
    /\ ret.val = 2
    /\ KeysOf(store, {list_prefix}) # {}
    /\ KeysOf(store, {search_prefix}) # {}
    /\ KeysOf(store, {type_prefix}) # {}

\* C6: bulk invalidation is complete and counted.  With the backend answering,
\* clear_all_pokemon_cache returns exactly the number of entries that were
\* present in the pokemon, pokemon_list, pokemon_search and pokemon_type
\* namespaces, and afterwards none of them is present.
BulkInvalidationComplete ==
    [][ (ret'.op = "clear_all_pokemon_cache" /\ ret'.reached) =>
            /\ ret'.val = Cardinality(KeysOf(store, PokemonNamespaces))
            /\ KeysOf(store', PokemonNamespaces) = {} ]_observed

\* A bulk clear that evicted entries of all four namespaces.
BulkInvalidationWitness ==
    /\ ret.op = "clear_all_pokemon_cache"
    /\ ret.reached
    /\ ret.val = MaxNsId + 3
    /\ KeysOf(store, PokemonNamespaces) = {}

\* C7: the administrative clear covers every namespace.  After
\* clear_all_cache() with the backend answering, every entry written through
\* PokeAPICache.cache_pokemon_data, cache_species_data or cache_evolution_chain
\* is absent, 'pokeapi_cache' is the number of such entries that were present,
\* and 'total_keys' = 'pokemon_cache' + 'pokeapi_cache'.
AdminClearCoversPokeapi ==
    [][ (ret'.op = "clear_all_cache" /\ ret'.reached) =>
            /\ KeysOf(store', PokeapiNamespaces) = {}
            /\ ret'.val.pokeapi_cache = Cardinality(KeysOf(store, PokeapiNamespaces))
            /\ ret'.val.total_keys = ret'.val.pokemon_cache + ret'.val.pokeapi_cache ]_observed

----------------------------------------------------------------------------
(* SpecList: cache_pokemon_list and get_pokemon_list over request parameters *)

MaxListEntries == 2

\* The parameter maps of the list requests: the default request and one
\* variation of each field
ListDomain ==
    { BaseParams,
      Page2Params,
      ListParams(PyInt(89290), PyInt(20), PyNone, PyNone, PyNone, Absent),
      ListParams(PyInt(126363), PyInt(20), PyNone, PyNone, PyNone, Absent),
      ListParams(PyInt(1), PyInt(50), PyNone, PyNone, PyNone, Absent),
      ListParams(PyInt(1), PyInt(20), PyStr("char"), PyNone, PyNone, Absent),
      ListParams(PyInt(1), PyInt(20), PyNone, PyStr("fire"), PyNone, Absent),
      ListParams(PyInt(1), PyInt(20), PyNone, PyNone, PyStr("favorites"), Absent),
      ListParams(PyInt(1), PyInt(20), PyNone, PyNone, PyStr("favorites"), PyInt(1)) }

RECURSIVE Reverse(_)
Reverse(s) == IF Len(s) = 0 THEN <<>> ELSE Append(Reverse(Tail(s)), Head(s))

\* The same dict built in either insertion order
Orders(d) == {d, Reverse(d)}

\* The mapping a dict denotes, whatever its insertion order
Mapping(d) == [k \in DictKeys(d) |-> DictGet(d, k)]

\* The result cached for a request names the request it was computed for
ResultFor(params) == [t |-> "dict", request |-> Mapping(params)]

\* The first 8 hex digits of the MD5 digest of the sorted-keys JSON of the
\* request with mapping m
Digest8(m) ==
    LET d == CHOOSE x \in ListDomain : Mapping(x) = m
    IN SubSeq(md5_hexdigest(json_dumps(d, TRUE)), 1, 8)

\* The server's answers <<pingOk, cmdOk>> to one get or set
PairAnswers == {a \in Answers \X Answers : ~a[1] => ~a[2]}

ListOutcome(op, params, r, answered) ==
    [op |-> op, dict |-> params, params |-> Mapping(params), key |-> ListKey(params),
     val |-> r.val, raised |-> r.raised, reached |-> connected /\ answered]

LsCache ==
    \E d \in ListDomain, a \in PairAnswers :
        \E params \in Orders(d) :
            LET r == cache_pokemon_list(store, params, ResultFor(params),
                                        PyInt(ListTtl), a[1], a[2])
            IN /\ Cardinality(DOMAIN r.st) <= MaxListEntries
               /\ store' = r.st
               /\ ret' = ListOutcome("cache_pokemon_list", params, r, a[1] /\ a[2])
               /\ UNCHANGED <<running, connected, backendUp, db, favorites, resp, written>>

LsGet ==
    \E d \in ListDomain, a \in PairAnswers :
        \E params \in Orders(d) :
            LET r == get_pokemon_list(store, params, a[1], a[2])
            IN /\ store' = r.st
               /\ ret' = ListOutcome("get_pokemon_list", params, r, a[1] /\ a[2])
               /\ UNCHANGED <<running, connected, backendUp, db, favorites, resp, written>>

LsClear ==
    \E a \in CallAnswers :
        NsWrite("clear_list_cache", clear_list_cache(store, a), AllAnswered(<<a>>))

ListNext ==
    \/ Outage
    \/ Recover
    \/ Elapse(ListTtl)
    \/ LsCache
    \/ LsGet
    \/ LsClear

SpecList == StoreInit /\ [][ListNext]_vars

\* The request an entry of the list namespace was cached for
RequestOf(k) == store[k].val.json.request

\* C8: key determinism.  The key derived by cache_pokemon_list and
\* get_pokemon_list depends only on the parameter map as a mapping, not on the
\* insertion order of its entries: whenever an entry cached for P is present,
\* get_pokemon_list(P') with P' equal to P addresses that entry and, the
\* backend answering, returns the result cached for P.
KeyDeterminism ==
    ret.op = "get_pokemon_list" =>
        \A k \in DOMAIN store :
            RequestOf(k) = ret.params =>
                /\ ret.key = k
                /\ ret.reached => ret.val = store[k].val.json

\* A lookup with the dict built in reversed insertion order hit the entry
\* cached for the same parameters.
KeyDeterminismWitness ==
    /\ ret.op = "get_pokemon_list"
    /\ ret.reached
    /\ \E d \in ListDomain : ret.dict = Reverse(d)
    /\ ret.val # PyNone
    /\ ret.val.request = ret.params

\* C9 as claimed: key discrimination.  For parameter maps P1 and P2 that
\* differ in at least one field the derived keys differ, so get_pokemon_list(P2)
\* never addresses an entry cached for P1, returns absent when only such
\* entries are present, and never returns R1.
KeyDiscrimination ==
    ret.op = "get_pokemon_list" =>
        /\ \A k \in DOMAIN store : RequestOf(k) # ret.params => ret.key # k
        /\ ret.val # PyNone => ret.val.request = ret.params

\* C9 as amended: parameter maps that differ in at least one field have
\* different sorted-keys JSON texts, and their keys differ exactly when the
\* first 8 hex digits of the MD5 digests of those texts differ.  So
\* get_pokemon_list(P2) returns absent when every present entry was cached for
\* a P1 whose 8 digits differ from those of P2; when the 8 digits coincide
\* (page 89290 and page 126363 both give ceccd120) it returns R1.
KeyDiscriminationUpToDigest ==
    ret.op = "get_pokemon_list" =>
        /\ \A k \in DOMAIN store :
              RequestOf(k) # ret.params =>
                  /\ (ret.key = k) <=> (Digest8(RequestOf(k)) = Digest8(ret.params))
                  /\ (ret.key = k /\ ret.reached) => ret.val = store[k].val.json
        /\ (\A k \in DOMAIN store : Digest8(RequestOf(k)) # Digest8(ret.params)) =>
              ret.val = PyNone

\* Only a request differing in user_id is cached, and the lookup reached the
\* backend and missed.
KeyDiscriminationWitness ==
    /\ ret.op = "get_pokemon_list"
    /\ ret.reached
    /\ ret.val = PyNone
    /\ "user_id" \notin DOMAIN ret.params
    /\ ret.params["sort"] = PyStr("favorites")
    /\ Cardinality(DOMAIN store) = 1
    /\ \A k \in DOMAIN store : "user_id" \in DOMAIN RequestOf(k)

----------------------------------------------------------------------------
(* The Pokemon resources: PokemonList and PokemonDetail *)

\* Pokemon.to_dict(): the fields of a row that the model keeps
to_dict(pokemon_id, row) ==
    [t |-> "dict", pokemon_id |-> pokemon_id, name |-> row.name, types |-> row.types]

\* The callers of a request: a user with a valid token, a caller without a
\* token, and a caller for whom identity extraction raises.
User(id) == [kind |-> "user", id |-> id]
Anonymous == [kind |-> "anonymous"]
Failing == [kind |-> "failing"]

\* get_jwt_identity() inside a handler decorated @jwt_required(optional=True):
\* it reads the request's token, so its outcome is the same at every call of
\* one request.
get_jwt_identity(caller) ==
    CASE caller.kind = "user" -> [raised |-> FALSE, val |-> PyInt(caller.id)]
      [] caller.kind = "anonymous" -> [raised |-> FALSE, val |-> PyNone]
      [] caller.kind = "failing" -> [raised |-> TRUE, val |-> PyNone]

\* The query arguments of GET /pokemon as the handler parses them
Request(page, per_page, search, type, sort) ==
    [page |-> page, per_page |-> per_page, search |-> search, type |-> type, sort |-> sort]

Favorites == PyStr("favorites")

\* cache_params of PokemonList.get
CacheParams(req, caller) ==
    LET with(user) == ListParams(PyInt(req.page), PyInt(req.per_page), req.search,
                                 req.type, req.sort, user)
    IN IF req.sort = Favorites
       THEN LET ident == get_jwt_identity(caller)
            IN IF ~ident.raised THEN with(ident.val) ELSE with(Absent)
       ELSE with(Absent)

\* s contains sub
Contains(s, sub) ==
    \E i \in 1..(Len(s) - Len(sub) + 1) : SubSeq(s, i, i + Len(sub) - 1) = sub

\* The query after the search and type filters: the pokemon_ids it selects
Filtered(dbv, req) ==
    {id \in DOMAIN dbv :
        /\ Truthy(req.search) => Contains(Lower(dbv[id].name), Lower(req.search.v))
        /\ Truthy(req.type) => req.type.v \in dbv[id].types}

RECURSIVE Ascending(_)
Ascending(ids) ==
    IF ids = {} THEN <<>>
    ELSE LET m == CHOOSE x \in ids : \A y \in ids : x <= y
         IN <<m>> \o Ascending(ids \ {m})

\* The rows of the query in the order of its ORDER BY, for the sort values
\* None, 'id', 'id_desc' and 'favorites'.  A query without ORDER BY (sort
\* 'favorites' with a user id) yields the rows as the table holds them, which
\* is by pokemon_id for a table filled by the seeder.
Ordered(ids, req, caller) ==
    CASE ~Truthy(req.sort) -> Ascending(ids)
      [] req.sort = PyStr("id") -> Ascending(ids)
      [] req.sort = PyStr("id_desc") -> Reverse(Ascending(ids))
      [] req.sort = Favorites -> Ascending(ids)

Min(a, b) == IF a < b THEN a ELSE b

Envelope(dbv, items, page, per_page, total, pages, has_next, has_prev) ==
    [t |-> "dict",
     pokemon |-> [i \in 1..Len(items) |-> to_dict(items[i], dbv[items[i]])],
     pagination |-> [page |-> page, per_page |-> per_page, total |-> total,
                     pages |-> pages, has_next |-> has_next, has_prev |-> has_prev]]

\* query.paginate(page, per_page, error_out=False) and the envelope built
\* from it
Paginated(dbv, rows, page, per_page) ==
    LET total == Len(rows)
        pages == IF total = 0 THEN 0 ELSE (total + per_page - 1) \div per_page
        start == (page - 1) * per_page
    IN Envelope(dbv, SubSeq(rows, start + 1, Min(start + per_page, total)),
                page, per_page, total, pages, page < pages, page > 1)

\* A slice index as Python clamps it: counted from the end when negative
SliceIndex(i, n) ==
    IF i < 0 THEN (IF i + n < 0 THEN 0 ELSE i + n)
    ELSE IF i > n THEN n ELSE i

\* s[start:end] of a list
PySlice(s, start, end) ==
    SubSeq(s, SliceIndex(start, Len(s)) + 1, SliceIndex(end, Len(s)))

\* a // b for b # 0: the quotient rounded down
FloorDiv(a, b) == IF b > 0 THEN a \div b ELSE (0 - a) \div (0 - b)

ZeroDivisionError == [t |-> "ZeroDivisionError"]

\* The favorites-first ordering paginated by hand
ManuallyPaginated(dbv, sorted_pokemon, page, per_page) ==
    IF per_page = 0 THEN ZeroDivisionError
    ELSE Envelope(dbv, PySlice(sorted_pokemon, (page - 1) * per_page,
                               (page - 1) * per_page + per_page),
                  page, per_page, Len(sorted_pokemon),
                  FloorDiv(Len(sorted_pokemon) + per_page - 1, per_page),
                  (page - 1) * per_page + per_page < Len(sorted_pokemon), page > 1)

MaxPerPage == 100

\* The result PokemonList.get computes from the database
ListResult(dbv, favs, req, caller) ==
    LET rows == Ordered(Filtered(dbv, req), req, caller)
        per_page == Min(req.per_page, MaxPerPage)
    IN IF req.sort = Favorites
       THEN LET ident == get_jwt_identity(caller)
                favorited_pokemon_ids ==
                    IF ~ident.raised /\ Truthy(ident.val) /\ ident.val.v \in DOMAIN favs
                    THEN favs[ident.val.v] ELSE {}
            IN IF favorited_pokemon_ids # {}
               THEN LET all == {rows[i] : i \in 1..Len(rows)}
                        sorted_pokemon == Ascending(all \cap favorited_pokemon_ids)
                                          \o Ascending(all \ favorited_pokemon_ids)
                    IN ManuallyPaginated(dbv, sorted_pokemon, req.page, per_page)
               ELSE Paginated(dbv, rows, req.page, per_page)
       ELSE Paginated(dbv, rows, req.page, per_page)

\* What a read handler returns: status and body, whether an exception escaped
\* it, whether the body came from the cache, whether it called the fill, and
\* the store it leaves
Reply(status, body, cached, fill, st) ==
    [status |-> status, body |-> body, raised |-> FALSE, cached |-> cached,
     fill |-> fill, st |-> st]

Escaped(fill, st) ==
    [status |-> 500, body |-> PyNone, raised |-> TRUE, cached |-> FALSE,
     fill |-> fill, st |-> st]

Message(text) == [t |-> "dict", message |-> text]

\* PokemonList.get; look and fill are the server's answers to the two cache calls
PokemonList_get(st, dbv, favs, req, caller, look, fill) ==
    LET cache_params == CacheParams(req, caller)
        cached_result == get_pokemon_list(st, cache_params, look[1], look[2])
    IN IF cached_result.raised THEN Escaped(FALSE, cached_result.st)
       ELSE IF Truthy(cached_result.val) THEN Reply(200, cached_result.val, TRUE, FALSE, cached_result.st)
       ELSE LET result == ListResult(dbv, favs, req, caller)
                w == cache_pokemon_list(cached_result.st, cache_params, result,
                                        PyInt(ListTtl), fill[1], fill[2])
            IN IF result.t = "ZeroDivisionError" THEN Escaped(FALSE, cached_result.st)
               ELSE IF w.raised THEN Escaped(TRUE, w.st)
               ELSE Reply(200, result, FALSE, TRUE, w.st)

NotFound == Message("Pokemon not found")

\* The result PokemonDetail.get computes from the database
DetailResult(dbv, pokemon_id) ==
    IF pokemon_id \notin DOMAIN dbv THEN [status |-> 404, body |-> NotFound]
    ELSE [status |-> 200, body |-> to_dict(pokemon_id, dbv[pokemon_id])]

PokemonDetail_get_NoFill(st, dbv, pokemon_id, look, fill) ==
    LET cached_pokemon == get_pokemon(st, pokemon_id, look[1], look[2])
    IN IF cached_pokemon.raised THEN Escaped(FALSE, cached_pokemon.st)
       ELSE IF Truthy(cached_pokemon.val) THEN Reply(200, cached_pokemon.val, TRUE, FALSE, cached_pokemon.st)
       ELSE IF pokemon_id \notin DOMAIN dbv THEN Reply(404, NotFound, FALSE, FALSE, cached_pokemon.st)
       ELSE Reply(200, to_dict(pokemon_id, dbv[pokemon_id]), FALSE, FALSE, cached_pokemon.st)

\* PokemonDetail.get
PokemonDetail_get(st, dbv, pokemon_id, look, fill) ==
    LET cached_pokemon == get_pokemon(st, pokemon_id, look[1], look[2])
    IN IF cached_pokemon.raised THEN Escaped(FALSE, cached_pokemon.st)
       ELSE IF Truthy(cached_pokemon.val) THEN Reply(200, cached_pokemon.val, TRUE, FALSE, cached_pokemon.st)
       ELSE IF pokemon_id \notin DOMAIN dbv THEN Reply(404, NotFound, FALSE, FALSE, cached_pokemon.st)
       ELSE LET result == to_dict(pokemon_id, dbv[pokemon_id])
                w == cache_pokemon(cached_pokemon.st, pokemon_id, result,
                                   PyInt(DetailTtl), fill[1], fill[2])
            IN IF w.raised THEN Escaped(TRUE, w.st) ELSE Reply(200, result, FALSE, TRUE, w.st)

\* The table with row id removed
Without(dbv, id) == [k \in DOMAIN dbv \ {id} |-> dbv[k]]

\* PokemonList.post: fetched is the row built from the PokeAPI answer, or
\* PyNone when the fetch fails
PokemonList_post(dbv, pokemon_id, fetched) ==
    IF pokemon_id \in DOMAIN dbv
    THEN [status |-> 409, body |-> Message("Pokemon already exists"), db |-> dbv]
    ELSE IF fetched = PyNone
    THEN [status |-> 400, body |-> Message("Failed to fetch Pokemon data"), db |-> dbv]
    ELSE [status |-> 201, body |-> to_dict(pokemon_id, fetched),
          db |-> (pokemon_id :> fetched) @@ dbv]

\* PokemonDetail.put
PokemonDetail_put(dbv, pokemon_id, fetched) ==
    IF pokemon_id \notin DOMAIN dbv
    THEN [status |-> 404, body |-> NotFound, db |-> dbv]
    ELSE IF fetched = PyNone
    THEN [status |-> 400, body |-> Message("Failed to fetch Pokemon data"), db |-> dbv]
    ELSE [status |-> 200, body |-> to_dict(pokemon_id, fetched),
          db |-> (pokemon_id :> fetched) @@ dbv]

\* PokemonDetail.delete
PokemonDetail_delete(dbv, pokemon_id) ==
    IF pokemon_id \notin DOMAIN dbv
    THEN [status |-> 404, body |-> NotFound, db |-> dbv]
    ELSE [status |-> 200, body |-> Message("Pokemon deleted successfully"),
          db |-> Without(dbv, pokemon_id)]

\* The outcome of a read handler as resp records it
ReadOutcome(op, req, caller, r, look, fill) ==
    [op |-> op, req |-> req, caller |-> caller,
     status |-> r.status, body |-> r.body, raised |-> r.raised, cached |-> r.cached,
     looked |-> connected /\ look[1] /\ look[2],
     attempted |-> r.fill,
     filled |-> r.fill /\ connected /\ fill[1] /\ fill[2]]

WriteOutcome(op, pokemon_id, r) ==
    [op |-> op, req |-> pokemon_id, status |-> r.status, body |-> r.body]

----------------------------------------------------------------------------
(* SpecRoutes: reads through the cache while the pokemon table is written *)

MaxPokemonId == 1

PokemonIds == 1..MaxPokemonId

\* The rows PokeAPI answers with; an answer may change from one fetch to the next
PokeapiRows ==
    { [name |-> "bulbasaur", types |-> {"grass", "poison"}],
      [name |-> "venusaur", types |-> {"grass", "poison"}] }

Fetches == PokeapiRows \cup {PyNone}

DefaultRequest == Request(1, 20, PyNone, PyNone, PyNone)

RtDetailGet ==
    \E id \in PokemonIds, look \in PairAnswers, fill \in PairAnswers :
        LET r == PokemonDetail_get(store, db, id, look, fill)
        IN /\ store' = r.st
           /\ resp' = ReadOutcome("PokemonDetail.get", id, Anonymous, r, look, fill)
           /\ ret' = NoRet
           /\ UNCHANGED <<running, connected, backendUp, db, favorites, written>>

RtListGet ==
    \E look \in PairAnswers, fill \in PairAnswers :
        LET r == PokemonList_get(store, db, favorites, DefaultRequest, Anonymous, look, fill)
        IN /\ store' = r.st
           /\ resp' = ReadOutcome("PokemonList.get", DefaultRequest, Anonymous, r, look, fill)
           /\ ret' = NoRet
           /\ UNCHANGED <<running, connected, backendUp, db, favorites, written>>

RtWrite(op, id, r) ==
    /\ db' = r.db
    /\ resp' = WriteOutcome(op, id, r)
    /\ ret' = NoRet
    /\ UNCHANGED <<running, connected, backendUp, store, favorites, written>>

RtPost ==
    \E id \in PokemonIds, fetched \in Fetches :
        RtWrite("PokemonList.post", id, PokemonList_post(db, id, fetched))

RtPut ==
    \E id \in PokemonIds, fetched \in Fetches :
        RtWrite("PokemonDetail.put", id, PokemonDetail_put(db, id, fetched))

RtDelete ==
    \E id \in PokemonIds :
        RtWrite("PokemonDetail.delete", id, PokemonDetail_delete(db, id))

RoutesNext ==
    \/ Outage
    \/ Recover
    \/ Elapse(DetailTtl)
    \/ RtDetailGet
    \/ RtListGet
    \/ RtPost
    \/ RtPut
    \/ RtDelete

SpecRoutes == StoreInit /\ [][RoutesNext]_vars

\* The response a read handler computes from the database alone
FromDatabase ==
    IF resp.op = "PokemonDetail.get" THEN DetailResult(db, resp.req)
    ELSE [status |-> 200, body |-> ListResult(db, favorites, resp.req, resp.caller)]

ReadOps == {"PokemonDetail.get", "PokemonList.get"}

\* C2: the read path never fails because of the cache.  For every request
\* handled by PokemonDetail.get or PokemonList.get no exception escapes the
\* handler; when the lookup does not reach the backend the response is not
\* taken from the cache; and whenever the response is not taken from the
\* cache, whether or not the fill reached the backend, it is exactly the
\* response computed from the database.
ReadPathNeverFails ==
    resp.op \in ReadOps =>
        /\ ~resp.raised
        /\ ~resp.looked => ~resp.cached
        /\ ~resp.cached => /\ resp.status = FromDatabase.status
                           /\ resp.body = FromDatabase.body

\* A list request served from the database although neither the lookup nor
\* the fill reached the backend, which is up.
ReadPathWitness ==
    /\ resp.op = "PokemonList.get"
    /\ connected /\ backendUp
    /\ ~resp.looked /\ ~resp.filled
    /\ resp.status = 200
    /\ ~resp.cached
    /\ Len(resp.body.pokemon) > 0
    /\ DOMAIN store = {}

\* C4: writes evict the affected cache entries.  After a Pokemon write has
\* committed no later PokemonDetail.get or PokemonList.get is answered from an
\* entry filled before it, so every response to a read is the one the database
\* gives: GET of an updated id returns the updated record and GET of a deleted
\* id returns 404.
WritesEvict ==
    resp.op \in ReadOps =>
        /\ resp.status = FromDatabase.status
        /\ resp.body = FromDatabase.body

----------------------------------------------------------------------------
(* SpecFavorites: the list requested by different callers, sorted or not by *)
(* their favorites                                                          *)

FavUsers == {1, 65053, 85151}

Callers == {User(u) : u \in FavUsers} \cup {Anonymous, Failing}

\* A table filled by the seeder
SeededRows ==
    (1 :> [name |-> "bulbasaur", types |-> {"grass", "poison"}])
    @@ (2 :> [name |-> "ivysaur", types |-> {"grass", "poison"}])

FavoritesRequest == Request(1, 20, PyNone, PyNone, Favorites)

FavRequests == {DefaultRequest, FavoritesRequest}

\* Each user has favorited pokemon 2 or nothing
FavInit ==
    /\ connected \in BOOLEAN
    /\ backendUp \in BOOLEAN
    /\ store = <<>>
    /\ ret = NoRet
    /\ resp = NoResp
    /\ written = <<>>
    /\ running = <<>>
    /\ db = SeededRows
    /\ favorites \in [FavUsers -> {{}, {2}}]

FvListGet ==
    \E req \in FavRequests, caller \in Callers :
        \E look \in PairAnswers, fill \in PairAnswers :
            LET r == PokemonList_get(store, db, favorites, req, caller, look, fill)
            IN /\ store' = r.st
               /\ resp' = ReadOutcome("PokemonList.get", req, caller, r, look, fill)
               /\ ret' = NoRet
               /\ UNCHANGED <<running, connected, backendUp, db, favorites, written>>

FavNext ==
    \/ Outage
    \/ Recover
    \/ Elapse(ListTtl)
    \/ FvListGet

SpecFavorites == FavInit /\ [][FavNext]_vars

UserIdInKeyIffFavorites ==
    resp.op = "PokemonList.get" =>
        /\ "user_id" \in DictKeys(CacheParams(resp.req, resp.caller))
              <=> resp.req.sort = Favorites
        /\ resp.req.sort # Favorites =>
              \A c \in Callers :
                  ListKey(CacheParams(resp.req, c)) = ListKey(CacheParams(resp.req, resp.caller))

----------------------------------------------------------------------------
(* SpecLife: set and the cache_* methods called with a ttl argument *)

LifeKey == "pokemon:25"

\* The ttl arguments: 0, or the default of the method called
LifeTtls(default) == {PyInt(0), PyInt(default)}

LfSet ==
    \E ttl \in LifeTtls(ListTtl), p \in Answers, c \in Answers :
        NsWrite("set", CacheManager_set(store, LifeKey, NsResult, ttl, p, c), p /\ c)

LfCachePokemon ==
    \E ttl \in LifeTtls(DetailTtl), p \in Answers, c \in Answers :
        NsWrite("cache_pokemon", cache_pokemon(store, 1, NsResult, ttl, p, c), p /\ c)

LfCacheList ==
    \E ttl \in LifeTtls(ListTtl), p \in Answers, c \in Answers :
        NsWrite("cache_pokemon_list",
                cache_pokemon_list(store, BaseParams, NsResult, ttl, p, c), p /\ c)

LfCacheSearch ==
    \E ttl \in LifeTtls(ListTtl), p \in Answers, c \in Answers :
        NsWrite("cache_search_results",
                cache_search_results(store, "char", NsResult, ttl, p, c), p /\ c)

LfCacheType ==
    \E ttl \in LifeTtls(ListTtl), p \in Answers, c \in Answers :
        NsWrite("cache_type_filter",
                cache_type_filter(store, "Fire", NsResult, ttl, p, c), p /\ c)

LfCachePokeapi ==
    \E ttl \in LifeTtls(PokeapiTtl), p \in Answers, c \in Answers :
        \/ NsWrite("cache_pokemon_data",
                   cache_pokemon_data(store, 1, NsResult, ttl, p, c), p /\ c)
        \/ NsWrite("cache_species_data",
                   cache_species_data(store, 1, NsResult, ttl, p, c), p /\ c)
        \/ NsWrite("cache_evolution_chain",
                   cache_evolution_chain(store, 1, NsResult, ttl, p, c), p /\ c)

LifeNext ==
    \/ Outage
    \/ Recover
    \/ Elapse(PokeapiTtl)
    \/ LfSet
    \/ LfCachePokemon
    \/ LfCacheList
    \/ LfCacheSearch
    \/ LfCacheType
    \/ LfCachePokeapi

SpecLife == StoreInit /\ [][LifeNext]_vars

\* C12: every cache entry has a bounded lifetime.  After any sequence of calls
\* to the cache_* methods and to set, each with a ttl argument >= 0, every
\* entry present in the store carries an expiry.
EveryEntryExpires == \A k \in DOMAIN store : store[k].ttl # NoExpiry

----------------------------------------------------------------------------
(* SpecSerial: set and get of Python values written out member by member,  *)
(* and of texts that another client of the same server stored.             *)

Nested ==
    PyDict(<< <<PyStr("a"), PyList(<<PyInt(1), PyDict(<< <<PyStr("b"), PyNone>> >>)>>)>> >>)

SerialValues ==
    { PyNone, PyBool(TRUE), PyInt(-12), PyFloat("1.5"), PyStr("a\"b"),
      PyList(<<PyInt(1), PyStr("a")>>), Nested,
      PyTuple(<<PyInt(1), PyInt(2)>>), PyFloat("nan"),
      PyDatetime("2020-01-01 00:00:00"),
      PyDict(<< <<PyInt(1), PyStr("a")>> >>),
      PyDict(<< <<PyTuple(<<PyInt(1)>>), PyStr("a")>> >>) }

RECURSIVE Repeat(_, _)
Repeat(c, n) == IF n = 0 THEN "" ELSE c \o Repeat(c, n - 1)

\* Texts that are not JSON and not the hex of a pickle, then one of each
RawTexts ==
    { "not json", "deadbeef", "[", "{\"a\":", "12ab", Repeat("[", RecursionLimit + 1),
      "80", "4e2e" }

SerialKey == "pokemon:25"

\* Another client stores the text raw under the key, without expiry
ForeignWrite(key, raw) ==
    /\ backendUp
    /\ store' = Put(store, key, [val |-> [text |-> raw], ttl |-> NoExpiry])
    /\ written' = Drop(written, {key})
    /\ ret' = NoRet
    /\ resp' = NoResp
    /\ UNCHANGED <<running, connected, backendUp, db, favorites>>

SerialNext ==
    \/ Outage
    \/ Recover
    \/ Elapse(1)
    \/ \E v \in SerialValues : DoSet(SerialKey, v, PyInt(MaxTtl))
    \/ DoGet(SerialKey)
    \/ \E raw \in RawTexts : ForeignWrite(SerialKey, raw)

SpecSerial == StoreInit /\ [][SerialNext]_vars

\* The values the structural encoding can represent: None, bools, numbers,
\* strings, and sequences and string-keyed maps of these
RECURSIVE Encodable(_)
Encodable(v) ==
    CASE v.t \in {"None", "bool", "int", "float", "str"} -> TRUE
      [] v.t \in {"list", "tuple"} -> \A i \in 1..Len(v.items) : Encodable(v.items[i])
      [] v.t = "dict" -> \A i \in 1..Len(v.items) :
                            v.items[i][1].t = "str" /\ Encodable(v.items[i][2])
      [] OTHER -> FALSE

\* Of these, the values without a tuple and without a nan
RECURSIVE Native(_)
Native(v) ==
    CASE v.t \in {"None", "bool", "int", "str"} -> TRUE
      [] v.t = "float" -> v.v # "nan"
      [] v.t = "list" -> \A i \in 1..Len(v.items) : Native(v.items[i])
      [] v.t = "dict" -> \A i \in 1..Len(v.items) :
                            v.items[i][1].t = "str" /\ Native(v.items[i][2])
      [] OTHER -> FALSE

DecodesTo(decoded, v) == ~decoded.raised /\ PyEq(decoded.val, v)

\* The entry of key k decodes to the value V it was set to, and a get of k
\* answered by the server returned V.
RoundTrip(k) ==
    /\ k \in DOMAIN store
    /\ DecodesTo(deserialize_data(store[k].val), written[k].value)
    /\ (ret.op = "get" /\ ret.reached /\ ret.key = k) => PyEq(ret.val, written[k].value)

FallbackReversible ==
    \A k \in DOMAIN written :
        (Live(k) /\ ~Encodable(written[k].value)) =>
            /\ "hex" \in DOMAIN store[k].val
            /\ RoundTrip(k)

\* A stored text that is neither JSON nor the hex of a pickle
Malformed(data) ==
    "text" \in DOMAIN data /\ ~ValidJson(data.text) /\ ~HexPickle(data.text)

\* C15: decoding never crashes the read path.  For every text stored under a
\* key that is neither JSON nor the hex of a pickle, _deserialize_data
\* returns the text unchanged, and a get of the key answered by the server
\* returns it.
RawPassThrough ==
    \A k \in DOMAIN store :
        Malformed(store[k].val) =>
            /\ DecodesTo(deserialize_data(store[k].val), PyStr(store[k].val.text))
            /\ (ret.op = "get" /\ ret.reached /\ ret.key = k) =>
                  PyEq(ret.val, PyStr(store[k].val.text))

----------------------------------------------------------------------------
(* SpecScenario: the search, type-filter and single-Pokemon caches written *)
(* and read back                                                           *)

MaxScenarioId == 1

ScenarioIds == 0..MaxScenarioId
ScenarioTerms == {"Char", "char", "chat"}
ScenarioTypes == {"Fire", "fire", "ice"}
ScenarioData == {Payload("pikachu"), Payload("raichu")}

\* The outcome of a call with its argument and the data passed to it
ScenarioOutcome(op, arg, data, r, answered) ==
    [op |-> op, arg |-> arg, data |-> data, val |-> r.val, raised |-> r.raised,
     reached |-> connected /\ answered]

ScenarioCall(op, arg, data, r, answered) ==
    /\ store' = r.st
    /\ ret' = ScenarioOutcome(op, arg, data, r, answered)
    /\ UNCHANGED <<running, connected, backendUp, db, favorites, resp, written>>

\* The results cached for a term or a type name carry that name
ScCacheSearch ==
    \E term \in ScenarioTerms, p \in Answers, c \in Answers :
        ScenarioCall("cache_search_results", term, Payload(term),
                     cache_search_results(store, term, Payload(term), PyInt(ListTtl), p, c),
                     p /\ c)

ScGetSearch ==
    \E term \in ScenarioTerms, p \in Answers, c \in Answers :
        ScenarioCall("get_search_results", term, PyNone,
                     get_search_results(store, term, p, c), p /\ c)

ScCacheType ==
    \E type \in ScenarioTypes, p \in Answers, c \in Answers :
        ScenarioCall("cache_type_filter", type, Payload(type),
                     cache_type_filter(store, type, Payload(type), PyInt(ListTtl), p, c),
                     p /\ c)

ScGetType ==
    \E type \in ScenarioTypes, p \in Answers, c \in Answers :
        ScenarioCall("get_type_filter", type, PyNone,
                     get_type_filter(store, type, p, c), p /\ c)

ScCachePokemon ==
    \E id \in ScenarioIds, data \in ScenarioData, p \in Answers, c \in Answers :
        ScenarioCall("cache_pokemon", id, data,
                     cache_pokemon(store, id, data, PyInt(DetailTtl), p, c), p /\ c)

ScGetPokemon ==
    \E id \in ScenarioIds, p \in Answers, c \in Answers :
        ScenarioCall("get_pokemon", id, PyNone, get_pokemon(store, id, p, c), p /\ c)

ScClearPokemon ==
    \E id \in ScenarioIds, a \in CallAnswers :
        ScenarioCall("clear_pokemon_cache", id, PyNone,
                     clear_pokemon_cache(store, PyInt(id), a),
                     a[1] /\ a[2] /\ (Truthy(PyInt(id)) \/ a[3]))

ScenarioNext ==
    \/ Outage
    \/ Recover
    \/ Elapse(DetailTtl)
    \/ ScCacheSearch
    \/ ScGetSearch
    \/ ScCacheType
    \/ ScGetType
    \/ ScCachePokemon
    \/ ScGetPokemon
    \/ ScClearPokemon

SpecScenario == StoreInit /\ [][ScenarioNext]_vars

\* This step is a get by getOp, answered by the server, that follows a
\* successful cache by cacheOp of a name equal to the get's up to letter case.
CollapsedGet(cacheOp, getOp) ==
    /\ ret.op = cacheOp /\ ret.val = TRUE
    /\ ret'.op = getOp /\ ret'.reached
    /\ Lower(ret.arg) = Lower(ret'.arg)

\* C16: case-insensitive key collapse.  cache_search_results(s1, R) followed
\* by get_search_results(s2), with s1 and s2 equal up to letter case, returns
\* R, and likewise cache_type_filter / get_type_filter; a get never returns
\* the results cached for a name that differs after lower-casing.
CaseCollapse ==
    [][ /\ CollapsedGet("cache_search_results", "get_search_results") => ret'.val = ret.data
        /\ CollapsedGet("cache_type_filter", "get_type_filter") => ret'.val = ret.data
        /\ (ret'.op \in {"get_search_results", "get_type_filter"} /\ ret'.val # PyNone) =>
              Lower(ret'.val.name) = Lower(ret'.arg)
      ]_observed

\* A get of "char" that returned the results cached for "Char".
CaseCollapseWitness ==
    /\ ret.op = "get_search_results" /\ ret.reached
    /\ ret.arg = "char"
    /\ ret.val = Payload("Char")

\* C17: the single-entity scenario, for every id.  After cache_pokemon(id, D,
\* ttl), get_pokemon(id) returns D; clear_pokemon_cache(id) returns 1 when the
\* entry of id is present and 0 when it is absent, removes exactly that entry
\* and leaves every other entry; a following get_pokemon(id) returns None.
EntityScenario ==
    [][ /\ ( /\ ret.op = "cache_pokemon" /\ ret.val = TRUE
             /\ ret'.op = "get_pokemon" /\ ret'.reached
             /\ ret'.arg = ret.arg ) => ret'.val = ret.data
        /\ (ret'.op = "clear_pokemon_cache" /\ ret'.reached) =>
              /\ ret'.val = IF PokemonKey(ret'.arg) \in DOMAIN store THEN 1 ELSE 0
              /\ store' = Drop(store, {PokemonKey(ret'.arg)})
        /\ ( /\ ret.op = "clear_pokemon_cache" /\ ret.reached
             /\ ret'.op = "get_pokemon"
             /\ ret'.arg = ret.arg ) => ret'.val = PyNone
      ]_observed

----------------------------------------------------------------------------
(* Read-through in SpecRoutes *)

\* The key and the TTL of the entry a read request is served from and filled to
EntryKey(r) ==
    IF r.op = "PokemonDetail.get" THEN PokemonKey(r.req)
    ELSE ListKey(CacheParams(r.req, r.caller))

EntryTtl(r) == IF r.op = "PokemonDetail.get" THEN DetailTtl ELSE ListTtl

\* This step served the request from the entry of its key: the payload as
\* stored, no database query, no fill.
ServedFromCache ==
    /\ resp'.cached
    /\ resp'.status = 200
    /\ resp'.body = deserialize_data(store[EntryKey(resp')].val).val
    /\ ~resp'.attempted
    /\ store' = store

\* This step built the result from the database, attempted one fill under the
\* request's key with the handler's TTL, and returned that result.
ServedFromDatabase ==
    /\ ~resp'.cached
    /\ resp'.status = 200
    /\ resp'.body = FromDatabase'.body
    /\ resp'.attempted
    /\ store' = IF resp'.filled
                THEN Put(store, EntryKey(resp'),
                         [val |-> serialize_data(resp'.body), ttl |-> EntryTtl(resp')])
                ELSE store

\* This step found no row for the id: 404, nothing cached.
ServedNotFound ==
    /\ ~resp'.cached
    /\ resp'.status = 404
    /\ FromDatabase'.status = 404
    /\ ~resp'.attempted
    /\ store' = store

----------------------------------------------------------------------------
(* SpecFavChange: users add and remove favorites between list requests *)

\* The outcome of a favorites handler: the status and the favorites table
FavReply(status, favs) == [status |-> status, favs |-> favs]

\* UserFavorites.post; @jwt_required() answers 401 without a valid token
UserFavorites_post(dbv, favs, caller, user_id, pokemon_id) ==
    IF caller.kind # "user" THEN FavReply(401, favs)
    ELSE IF user_id \notin DOMAIN favs THEN FavReply(404, favs)
    ELSE IF caller.id # user_id THEN FavReply(403, favs)
    ELSE IF pokemon_id \notin DOMAIN dbv THEN FavReply(404, favs)
    ELSE IF pokemon_id \in favs[user_id] THEN FavReply(409, favs)
    ELSE FavReply(201, [favs EXCEPT ![user_id] = @ \cup {pokemon_id}])

\* UserFavorites.delete; data is the pokemon_id of the request body, or None
\* for a body without one
UserFavorites_delete(favs, caller, user_id, data) ==
    IF caller.kind # "user" THEN FavReply(401, favs)
    ELSE IF user_id \notin DOMAIN favs THEN FavReply(404, favs)
    ELSE IF caller.id # user_id THEN FavReply(403, favs)
    ELSE IF data = PyNone THEN FavReply(400, favs)
    ELSE IF data.v \notin favs[user_id] THEN FavReply(404, favs)
    ELSE FavReply(200, [favs EXCEPT ![user_id] = @ \ {data.v}])

\* The users whose favorites are requested: two registered, one unknown
ChangeUsers == {1, 65053, 7}

ChangeCallers == {User(1), User(65053), Anonymous}

\* The pokemon a request names: a seeded row and one without a row
ChangePokemon == {2, 3}

FavOutcome(op, caller, user_id, pokemon_id, r) ==
    [op |-> op, caller |-> caller, req |-> user_id, pokemon_id |-> pokemon_id,
     status |-> r.status]

FcWrite(op, caller, user_id, pokemon_id, r) ==
    /\ favorites' = r.favs
    /\ resp' = FavOutcome(op, caller, user_id, pokemon_id, r)
    /\ ret' = NoRet
    /\ UNCHANGED <<running, connected, backendUp, store, db, written>>

FcPost ==
    \E caller \in ChangeCallers, user_id \in ChangeUsers, pokemon_id \in ChangePokemon :
        FcWrite("UserFavorites.post", caller, user_id, PyInt(pokemon_id),
                UserFavorites_post(db, favorites, caller, user_id, pokemon_id))

FcDelete ==
    \E caller \in ChangeCallers, user_id \in ChangeUsers,
       data \in {PyInt(p) : p \in ChangePokemon} \cup {PyNone} :
        FcWrite("UserFavorites.delete", caller, user_id, data,
                UserFavorites_delete(favorites, caller, user_id, data))

FcListGet ==
    \E caller \in ChangeCallers, look \in PairAnswers, fill \in PairAnswers :
        LET r == PokemonList_get(store, db, favorites, FavoritesRequest, caller, look, fill)
        IN /\ store' = r.st
           /\ resp' = ReadOutcome("PokemonList.get", FavoritesRequest, caller, r, look, fill)
           /\ ret' = NoRet
           /\ UNCHANGED <<running, connected, backendUp, db, favorites, written>>

FavChangeInit ==
    /\ connected \in BOOLEAN
    /\ backendUp \in BOOLEAN
    /\ store = <<>>
    /\ ret = NoRet
    /\ resp = NoResp
    /\ written = <<>>
    /\ running = <<>>
    /\ db = SeededRows
    /\ favorites = [u \in {1, 65053} |-> {}]

FavChangeNext ==
    \/ Outage
    \/ Recover
    \/ Elapse(ListTtl)
    \/ FcListGet
    \/ FcPost
    \/ FcDelete

SpecFavChange == FavChangeInit /\ [][FavChangeNext]_vars

\* C19: favorites changes are reflected in favorites-sorted lists.  After a
\* user has added or removed a favorite, every response to that user's
\* GET /pokemon?sort=favorites is the list ordered by the user's favorites as
\* they are now, also when the same request was answered and cached before the
\* change and the entry's TTL has not elapsed.
FavoritesChangeReflected ==
    (resp.op = "PokemonList.get" /\ resp.caller.kind = "user" /\ resp.status = 200) =>
        resp.body = ListResult(db, favorites, resp.req, resp.caller)

----------------------------------------------------------------------------
(* SpecSeeder: the seeder writes the pokemon table while lists are cached *)

MaxSeedId == 2

SeedIds == 1..MaxSeedId

\* The rows a seeder run adds: for every id of ids without a row, the row
\* built from the PokeAPI answer, unless fetching or validating it failed
\* (PyNone)
Seeded(dbv, ids, fetched) ==
    {id \in ids : id \notin DOMAIN dbv /\ fetched[id] # PyNone}

\* What a seeder run returns and the table it leaves
SeederReply(successful, dbv) == [successful |-> successful, db |-> dbv]

\* PokemonSeeder.seed_pokemon over start_id..end_id; fetched[id] is the
\* transformed PokeAPI answer for id
seed_pokemon(dbv, start_id, end_id, fetched) ==
    SeederReply(Cardinality(Seeded(dbv, start_id..end_id, fetched)),
                [id \in Seeded(dbv, start_id..end_id, fetched) |-> fetched[id]] @@ dbv)

\* PokemonSeeder.seed_pokemon_generation; pokemon_list maps the ids of the
\* generation to their PokeAPI answers
seed_pokemon_generation(dbv, pokemon_list) ==
    SeederReply(Cardinality(Seeded(dbv, DOMAIN pokemon_list, pokemon_list)),
                [id \in Seeded(dbv, DOMAIN pokemon_list, pokemon_list) |-> pokemon_list[id]]
                @@ dbv)

\* PokemonSeeder.clear_pokemon_data: returns the number of rows deleted
clear_pokemon_data(dbv) == SeederReply(Cardinality(DOMAIN dbv), <<>>)

SeederOutcome(op, r) == [op |-> op, changed |-> r.successful]

\* A seeder run: the table changes, the store is not touched
SdRun(op, r) ==
    /\ db' = r.db
    /\ resp' = SeederOutcome(op, r)
    /\ ret' = NoRet
    /\ UNCHANGED <<running, connected, backendUp, store, favorites, written>>

SdSeed ==
    \E start_id \in SeedIds, end_id \in SeedIds, fetched \in [SeedIds -> Fetches] :
        /\ start_id <= end_id
        /\ SdRun("seed_pokemon", seed_pokemon(db, start_id, end_id, fetched))

SdSeedGeneration ==
    \E ids \in SUBSET SeedIds :
        \E pokemon_list \in [ids -> PokeapiRows] :
            SdRun("seed_pokemon_generation", seed_pokemon_generation(db, pokemon_list))

SdClear == SdRun("clear_pokemon_data", clear_pokemon_data(db))

SdListGet ==
    \E look \in PairAnswers, fill \in PairAnswers :
        LET r == PokemonList_get(store, db, favorites, DefaultRequest, Anonymous, look, fill)
        IN /\ store' = r.st
           /\ resp' = ReadOutcome("PokemonList.get", DefaultRequest, Anonymous, r, look, fill)
           /\ ret' = NoRet
           /\ UNCHANGED <<running, connected, backendUp, db, favorites, written>>

SdCacheSearch ==
    \E p \in Answers, c \in Answers :
        NsWrite("cache_search_results",
                cache_search_results(store, "char", NsResult, PyInt(ListTtl), p, c), p /\ c)

SdCacheType ==
    \E p \in Answers, c \in Answers :
        NsWrite("cache_type_filter",
                cache_type_filter(store, "Fire", NsResult, PyInt(ListTtl), p, c), p /\ c)

SeederNext ==
    \/ Outage
    \/ Recover
    \/ Elapse(ListTtl)
    \/ SdListGet
    \/ SdCacheSearch
    \/ SdCacheType
    \/ SdSeed
    \/ SdSeedGeneration
    \/ SdClear

SpecSeeder == StoreInit /\ [][SeederNext]_vars

SeederOps == {"seed_pokemon", "seed_pokemon_generation", "clear_pokemon_data"}

\* The entries of lists, searches and type filters
ListingKeys(st) ==
    {k \in DOMAIN st : \E p \in {list_prefix, search_prefix, type_prefix} :
                           StartsWith(k, p \o ":")}

\* C20: bulk loads invalidate the cache.  When seed_pokemon,
\* seed_pokemon_generation or clear_pokemon_data has returned after adding or
\* deleting rows, the store holds no list, search or type-filter entry: all
\* Pokemon caches were cleared before it returned.
BulkLoadsInvalidate ==
    (resp.op \in SeederOps /\ resp.changed > 0) => ListingKeys(store) = {}

----------------------------------------------------------------------------
(* SpecPokeapi: the PokeAPI client reading through the external-data cache *)

\* What PokeAPIClient.get_pokemon returns or raises, the number of upstream
\* requests it made, whether it called the fill, and the store it leaves
ClientReply(val, raised, requests, fill, st) ==
    [val |-> val, raised |-> raised, requests |-> requests, fill |-> fill, st |-> st]

\* _make_request failed: it raised one of the PokeAPIError classes
RequestFailed == [t |-> "PokeAPIError"]

PokeAPIClient_get_pokemon_StoreOnFailure(st, pokemon_id, upstream, look, fill) ==
    IF Truthy(get_pokemon_data(st, pokemon_id, look[1], look[2]).val)
    THEN ClientReply(get_pokemon_data(st, pokemon_id, look[1], look[2]).val, FALSE, 0, FALSE, st)
    ELSE IF upstream = RequestFailed
    THEN ClientReply(PyNone, TRUE, 1, TRUE,
                     cache_pokemon_data(st, pokemon_id, Payload("error"), PyInt(PokeapiTtl),
                                        fill[1], fill[2]).st)
    ELSE ClientReply(upstream, FALSE, 1, TRUE,
                     cache_pokemon_data(st, pokemon_id, upstream, PyInt(PokeapiTtl),
                                        fill[1], fill[2]).st)

\* PokeAPIClient.get_pokemon; upstream is the outcome of _make_request, look
\* and fill are the server's answers to the two cache calls
PokeAPIClient_get_pokemon(st, pokemon_id, upstream, look, fill) ==
    IF Truthy(get_pokemon_data(st, pokemon_id, look[1], look[2]).val)
    THEN ClientReply(get_pokemon_data(st, pokemon_id, look[1], look[2]).val, FALSE, 0, FALSE, st)
    ELSE IF upstream = RequestFailed
    THEN ClientReply(PyNone, TRUE, 1, FALSE, st)
    ELSE ClientReply(upstream, FALSE, 1, TRUE,
                     cache_pokemon_data(st, pokemon_id, upstream, PyInt(PokeapiTtl),
                                        fill[1], fill[2]).st)

MaxPokeapiId == 2

ClientIds == 1..MaxPokeapiId

\* The answers of PokeAPI to pokemon/<id>: the payload may change from one
\* fetch to the next, or the request fails
PokeapiData(pokemon_id, name) == [t |-> "dict", id |-> pokemon_id, name |-> name]

Upstream(pokemon_id) ==
    {PokeapiData(pokemon_id, "bulbasaur"), PokeapiData(pokemon_id, "ivysaur"), RequestFailed}

ClientOutcome(pokemon_id, upstream, r, look, fill) ==
    [op |-> "PokeAPIClient.get_pokemon", req |-> pokemon_id, upstream |-> upstream,
     val |-> r.val, raised |-> r.raised, requests |-> r.requests,
     looked |-> connected /\ look[1] /\ look[2],
     attempted |-> r.fill,
     filled |-> r.fill /\ connected /\ fill[1] /\ fill[2]]

PaGetPokemon ==
    \E id \in ClientIds, look \in PairAnswers, fill \in PairAnswers :
        \E upstream \in Upstream(id) :
            /\ store' = PokeAPIClient_get_pokemon(store, id, upstream, look, fill).st
            /\ resp' = ClientOutcome(id, upstream,
                                     PokeAPIClient_get_pokemon(store, id, upstream, look, fill),
                                     look, fill)
            /\ ret' = NoRet
            /\ UNCHANGED <<running, connected, backendUp, db, favorites, written>>

PokeapiNext ==
    \/ Outage
    \/ Recover
    \/ Elapse(PokeapiTtl)
    \/ PaGetPokemon

SpecPokeapi == StoreInit /\ [][PokeapiNext]_vars

PokeapiKey(pokemon_id) == generate_key(pokeapi_pokemon_prefix, PyInt(pokemon_id), <<>>)

\* C21: the external cache is read-through and never a correctness
\* dependency.  For every id, when the lookup is answered and finds an entry,
\* get_pokemon returns the cached payload with no upstream request and no
\* fill; otherwise (miss, or cache unavailable) it issues exactly one upstream
\* fetch; on success it returns the fetched payload and the fill, when the
\* server answers it, stores that payload under pokeapi_pokemon:<id> with TTL
\* 86400 and changes nothing else; when the fetch fails it raises and the
\* store is unchanged.
ExternalReadThrough ==
    [][ resp'.op = "PokeAPIClient.get_pokemon" =>
            IF resp'.looked /\ PokeapiKey(resp'.req) \in DOMAIN store
            THEN /\ ~resp'.raised
                 /\ resp'.val = deserialize_data(store[PokeapiKey(resp'.req)].val).val
                 /\ resp'.requests = 0
                 /\ ~resp'.attempted
                 /\ store' = store
            ELSE /\ resp'.requests = 1
                 /\ IF resp'.upstream = RequestFailed
                    THEN /\ resp'.raised
                         /\ ~resp'.attempted
                         /\ store' = store
                    ELSE /\ ~resp'.raised
                         /\ resp'.val = resp'.upstream
                         /\ resp'.attempted
                         /\ store' = IF resp'.filled
                                     THEN Put(store, PokeapiKey(resp'.req),
                                              [val |-> serialize_data(resp'.upstream),
                                               ttl |-> PokeapiTtl])
                                     ELSE store
      ]_observed

\* A fetch failed while the cache was reachable and held another id's entry:
\* the call raised and stored nothing.
ExternalReadThroughWitness ==
    /\ resp.op = "PokeAPIClient.get_pokemon"
    /\ resp.raised /\ resp.looked
    /\ resp.requests = 1
    /\ PokeapiKey(resp.req) \notin DOMAIN store
    /\ DOMAIN store # {}

----------------------------------------------------------------------------
(* The states of a key in SpecStore *)

\* How this step changed key k
Entered(k) == k \in DOMAIN store' /\ (k \notin DOMAIN store \/ store'[k] # store[k])
Left(k) == k \in DOMAIN store /\ k \notin DOMAIN store'

\* The entry a successful set(k, value, ttl) leaves: the value and the ttl set
Filled(k) ==
    /\ k \in DOMAIN written'
    /\ written'[k].age = 0
    /\ store'[k] = [val |-> serialize_data(written'[k].value), ttl |-> written'[k].ttl]

\* C22: per-key state machine.  Each key is either present, with a value and
\* a remaining TTL, or absent.  A key becomes present, or present with
\* another value or TTL, only by a set that returns True, which replaces both
\* the value and the TTL; while present its value stays and its remaining TTL
\* only runs down; it becomes absent only by expiry, by a delete of it that
\* returns True or by a clear_pattern that matches it; get, exists, get_ttl
\* and is_available change no key, and neither does a set that returns False.
PerKeyStateMachine ==
    [][ /\ \A k \in DOMAIN store' :
              /\ DOMAIN store'[k] = {"val", "ttl"}
              /\ store'[k].ttl > 0
        /\ \A k \in DOMAIN store \cup DOMAIN store' :
              /\ Entered(k) =>
                    \/ /\ ret'.op = "set" /\ ret'.key = k /\ ret'.val = TRUE
                       /\ Filled(k)
                    \/ /\ ret'.op = "none"
                       /\ k \in DOMAIN store
                       /\ store'[k].val = store[k].val
                       /\ store'[k].ttl < store[k].ttl
              /\ Left(k) =>
                    \/ ret'.op = "none"
                    \/ ret'.op = "delete" /\ ret'.key = k /\ ret'.val = TRUE
                    \/ ret'.op = "clear_pattern" /\ GlobMatch(ret'.key, k) /\ ret'.val > 0
        /\ ret'.op \in {"get", "exists", "get_ttl", "is_available"} => store' = store
        /\ (ret'.op = "set" /\ ret'.val = FALSE) => store' = store
      ]_observed

----------------------------------------------------------------------------
(* SpecFills: requests to PokemonDetail.get running concurrently, one      *)
(* statement at a time, while the pokemon table is written                 *)

MaxRequests == 2

Requests == 1..MaxRequests

\* The outcome of a request that has returned
FillOutcome(rq, pokemon_id, status, body, cached, attempted, filled) ==
    [op |-> "PokemonDetail.get", rq |-> rq, req |-> pokemon_id, caller |-> Anonymous,
     status |-> status, body |-> body, raised |-> FALSE, cached |-> cached,
     attempted |-> attempted, filled |-> filled]

\* cached_pokemon = pokemon_cache.get_pokemon(pokemon_id); if cached_pokemon:
\* return cached_pokemon
CfLookup(rq) ==
    /\ rq \notin DOMAIN running
    /\ \E pokemon_id \in PokemonIds, look \in PairAnswers :
          LET cached_pokemon == get_pokemon(store, pokemon_id, look[1], look[2])
          IN IF Truthy(cached_pokemon.val)
             THEN /\ resp' = FillOutcome(rq, pokemon_id, 200, cached_pokemon.val,
                                         TRUE, FALSE, FALSE)
                  /\ running' = running
             ELSE /\ resp' = NoResp
                  /\ running' = Put(running, rq, [pc |-> "query", pokemon_id |-> pokemon_id])
    /\ ret' = NoRet
    /\ UNCHANGED <<connected, backendUp, store, db, favorites, written>>

\* pokemon = Pokemon.query.filter_by(pokemon_id=pokemon_id).first(); abort(404)
\* or result = pokemon.to_dict().  seen: the table the query read.
CfQuery(rq) ==
    /\ rq \in DOMAIN running
    /\ running[rq].pc = "query"
    /\ IF running[rq].pokemon_id \notin DOMAIN db
       THEN /\ resp' = FillOutcome(rq, running[rq].pokemon_id, 404, NotFound,
                                   FALSE, FALSE, FALSE)
            /\ running' = Drop(running, {rq})
       ELSE /\ resp' = NoResp
            /\ running' = Put(running, rq,
                              [pc |-> "fill", pokemon_id |-> running[rq].pokemon_id,
                               result |-> to_dict(running[rq].pokemon_id,
                                                  db[running[rq].pokemon_id]),
                               seen |-> db])
    /\ ret' = NoRet
    /\ UNCHANGED <<connected, backendUp, store, db, favorites, written>>

\* The fill of a request: the store it leaves and the record of the last
\* fill that the server executed
Fill(rq, w, reached) ==
    /\ store' = w.st
    /\ written' = IF reached
                  THEN Put(written, PokemonKey(running[rq].pokemon_id),
                           [value |-> running[rq].result, ttl |-> DetailTtl, age |-> 0])
                  ELSE written
    /\ resp' = FillOutcome(rq, running[rq].pokemon_id, 200, running[rq].result,
                           FALSE, TRUE, reached)

\* pokemon_cache.cache_pokemon(pokemon_id, result, ttl=3600); return result
CfFill(rq) ==
    /\ rq \in DOMAIN running
    /\ running[rq].pc = "fill"
    /\ \E fill \in PairAnswers :
          Fill(rq, cache_pokemon(store, running[rq].pokemon_id, running[rq].result,
                                 PyInt(DetailTtl), fill[1], fill[2]),
               connected /\ fill[1] /\ fill[2])
    /\ running' = Drop(running, {rq})
    /\ ret' = NoRet
    /\ UNCHANGED <<connected, backendUp, db, favorites>>

FillsNext ==
    \/ Outage
    \/ Recover
    \/ Elapse(DetailTtl)
    \/ RtPost
    \/ RtPut
    \/ \E rq \in Requests : CfLookup(rq)
    \/ \E rq \in Requests : CfQuery(rq)
    \/ \E rq \in Requests : CfFill(rq)

SpecFills == StoreInit /\ [][FillsNext]_vars

\* The requests that have queried the table and are about to fill
Filling(run) == {rq \in DOMAIN run : run[rq].pc = "fill"}

\* C23: concurrent fills are last-write-wins with no intermediate state.
\* Under every interleaving of requests that miss on the same key and each
\* fill it: the entry of the key is always the complete value of the fill
\* whose set the server executed last, with TTL 3600 from that fill; every
\* lookup that hits returns that value; and requests that queried the same
\* table contents fill equal values.
LastWriteWins ==
    [][ /\ \A k \in DOMAIN store' :
              /\ k \in DOMAIN written'
              /\ deserialize_data(store'[k].val).val = written'[k].value
        /\ (resp'.op = "PokemonDetail.get" /\ resp'.cached) =>
              /\ PokemonKey(resp'.req) \in DOMAIN store
              /\ resp'.body = written[PokemonKey(resp'.req)].value
        /\ (resp'.op = "PokemonDetail.get" /\ resp'.filled) =>
              store'[PokemonKey(resp'.req)] =
                  [val |-> serialize_data(resp'.body), ttl |-> DetailTtl]
        /\ \A r1 \in Filling(running'), r2 \in Filling(running') :
              (running'[r1].pokemon_id = running'[r2].pokemon_id
                  /\ running'[r1].seen = running'[r2].seen)
              => running'[r1].result = running'[r2].result
      ]_observed

\* A fill has just been executed while another request, which queried the
\* table before it changed, is about to fill the same key with another value.
LastWriteWinsWitness ==
    /\ resp.op = "PokemonDetail.get" /\ resp.filled
    /\ \E rq \in Filling(running) :
          /\ running[rq].pokemon_id = resp.req
          /\ running[rq].result # resp.body

----------------------------------------------------------------------------
(* SpecPartial: clear_all_pokemon_cache while the server fails at any point *)
(* of any of its four clears                                                *)

\* The namespaces in the order clear_all_pokemon_cache clears them
ClearOrder == <<pokemon_prefix, list_prefix, search_prefix, type_prefix>>

\* The outcome of the bulk clear; answered[i]: the server answered everything
\* the i-th clear asked of it
PartialOutcome(r, as) ==
    [op |-> "clear_all_pokemon_cache", key |-> "", val |-> r.val, raised |-> r.raised,
     reached |-> connected /\ AllAnswered(as),
     answered |-> [i \in 1..Len(as) |-> connected /\ AllAnswered(<<as[i]>>)]]

PcClearAllPokemon ==
    \E as \in [1..Len(ClearOrder) -> CallAnswers] :
        /\ store' = clear_all_pokemon_cache(store, as).st
        /\ ret' = PartialOutcome(clear_all_pokemon_cache(store, as), as)
        /\ UNCHANGED <<running, connected, backendUp, db, favorites, resp, written>>

PartialNext ==
    \/ Outage
    \/ Recover
    \/ Elapse(DetailTtl)
    \/ NsCachePokemon
    \/ NsCacheList
    \/ NsCacheSearch
    \/ NsCacheType
    \/ PcClearAllPokemon

SpecPartial == StoreInit /\ [][PartialNext]_vars

\* The clears of this step that the server answered
Answered == {i \in 1..Len(ClearOrder) : ret'.answered[i]}

RECURSIVE Total(_, _)
Total(st, is) ==
    IF is = {} THEN 0
    ELSE LET i == CHOOSE x \in is : TRUE
         IN Cardinality(KeysOf(st, {ClearOrder[i]})) + Total(st, is \ {i})

----------------------------------------------------------------------------
(* SpecOrdering: a user with favorites requests pages of the favorites-    *)
(* sorted list                                                             *)

OrderRows ==
    (1 :> [name |-> "bulbasaur", types |-> {"grass", "poison"}])
    @@ (2 :> [name |-> "ivysaur", types |-> {"grass", "poison"}])
    @@ (3 :> [name |-> "venusaur", types |-> {"grass", "poison"}])
    @@ (4 :> [name |-> "charmander", types |-> {"fire"}])
    @@ (5 :> [name |-> "charmeleon", types |-> {"fire"}])

\* The query arguments: page and per_page are any int the client sends
OrderPages == {-1, 1, 2, 3}
OrderPerPages == {0, 1, 2, 101}
OrderFilters == {<<PyNone, PyNone>>, <<PyStr("saur"), PyNone>>, <<PyNone, PyStr("fire")>>}

OrderRequests ==
    {Request(page, per_page, f[1], f[2], Favorites) :
        page \in OrderPages, per_page \in OrderPerPages, f \in OrderFilters}

\* The favorites of user 1
OrderFavorites == {{3}, {2, 5}, {1, 2, 3, 4, 5}}

\* The client sends one request, again and again
OrderingInit ==
    /\ connected \in BOOLEAN
    /\ backendUp \in BOOLEAN
    /\ store = <<>>
    /\ ret = NoRet
    /\ resp = NoResp
    /\ written = <<>>
    /\ db = OrderRows
    /\ favorites \in [{1} -> OrderFavorites]
    /\ running \in [{1} -> [pc : {"PokemonList.get"}, req : OrderRequests]]

OrListGet ==
    \E look \in PairAnswers, fill \in PairAnswers :
        LET r == PokemonList_get(store, db, favorites, running[1].req, User(1), look, fill)
        IN /\ store' = r.st
           /\ resp' = ReadOutcome("PokemonList.get", running[1].req, User(1), r, look, fill)
           /\ ret' = NoRet
           /\ UNCHANGED <<running, connected, backendUp, db, favorites, written>>

OrderingNext ==
    \/ Outage
    \/ Recover
    \/ Elapse(ListTtl)
    \/ OrListGet

SpecOrdering == OrderingInit /\ [][OrderingNext]_vars

\* The matching pokemon in the order of the claim: the favorites ascending,
\* then the others ascending
FavoritesFirst(dbv, favs, req) ==
    Ascending(Filtered(dbv, req) \cap favs) \o Ascending(Filtered(dbv, req) \ favs)

\* The members of order at the 0-based positions lo <= i < hi
Positions(order, lo, hi) ==
    SubSeq(order, (IF lo < 0 THEN 0 ELSE lo) + 1, IF hi > Len(order) THEN Len(order) ELSE hi)

\* c = ceil(total / n), for n > 0
IsCeil(c, total, n) == n > 0 /\ c * n >= total /\ (c - 1) * n < total

\* The page the claim describes, for the order, page p and per_page n
PageOf(b, dbv, order, p, n) ==
    /\ b.pokemon = [i \in 1..Len(Positions(order, (p - 1) * n, p * n)) |->
                       to_dict(Positions(order, (p - 1) * n, p * n)[i],
                               dbv[Positions(order, (p - 1) * n, p * n)[i]])]
    /\ b.pagination.page = p
    /\ b.pagination.per_page = n
    /\ b.pagination.total = Len(order)
    /\ IsCeil(b.pagination.pages, Len(order), n)
    /\ b.pagination.has_next = (p * n < Len(order))
    /\ b.pagination.has_prev = (p > 1)

\* C25: favorites-first ordering and pagination on a cache miss.  For an
\* authenticated user with at least one favorite, GET /pokemon?sort=favorites
\* answers 200 with the pokemon matching the filters, the user's favorites in
\* ascending pokemon_id before the others in ascending pokemon_id; page p
\* with per_page n (at most 100) is the slice [(p-1)*n, p*n) of that order,
\* total is the number of matching pokemon, pages is ceil(total/n), has_next
\* is p*n < total and has_prev is p > 1.
FavoritesFirstPages ==
    (/\ resp.op = "PokemonList.get"
     /\ resp.req.sort = Favorites
     /\ resp.caller.kind = "user"
     /\ ~resp.cached
     /\ favorites[resp.caller.id] # {})
    => /\ ~resp.raised
       /\ resp.status = 200
       /\ PageOf(resp.body, db, FavoritesFirst(db, favorites[resp.caller.id], resp.req),
                 resp.req.page, Min(resp.req.per_page, MaxPerPage))

----------------------------------------------------------------------------
(* SpecOwner: users request their own and each other's favorites *)

\* What UserFavorites.get answers: the status and the favorites it returns,
\* None when the request is rejected
FavListing(status, returned) == [status |-> status, returned |-> returned]

\* UserFavorites.get; @jwt_required() answers 401 without a valid token
UserFavorites_get(favs, caller, user_id) ==
    IF caller.kind # "user" THEN FavListing(401, PyNone)
    ELSE IF user_id \notin DOMAIN favs THEN FavListing(404, PyNone)
    ELSE IF caller.id # user_id THEN FavListing(403, PyNone)
    ELSE FavListing(200, [t |-> "favorites", v |-> favs[user_id]])

OwnerOutcome(op, caller, user_id, status, returned) ==
    [op |-> op, caller |-> caller, req |-> user_id, status |-> status,
     returned |-> returned]

OwAnswer(op, caller, user_id, status, returned, favs) ==
    /\ favorites' = favs
    /\ resp' = OwnerOutcome(op, caller, user_id, status, returned)
    /\ ret' = NoRet
    /\ UNCHANGED <<running, connected, backendUp, store, db, written>>

OwGet ==
    \E caller \in ChangeCallers, user_id \in ChangeUsers :
        OwAnswer("UserFavorites.get", caller, user_id,
                 UserFavorites_get(favorites, caller, user_id).status,
                 UserFavorites_get(favorites, caller, user_id).returned, favorites)

OwPost ==
    \E caller \in ChangeCallers, user_id \in ChangeUsers, pokemon_id \in ChangePokemon :
        OwAnswer("UserFavorites.post", caller, user_id,
                 UserFavorites_post(db, favorites, caller, user_id, pokemon_id).status,
                 PyNone,
                 UserFavorites_post(db, favorites, caller, user_id, pokemon_id).favs)

OwDelete ==
    \E caller \in ChangeCallers, user_id \in ChangeUsers,
       data \in {PyInt(p) : p \in ChangePokemon} \cup {PyNone} :
        OwAnswer("UserFavorites.delete", caller, user_id,
                 UserFavorites_delete(favorites, caller, user_id, data).status,
                 PyNone,
                 UserFavorites_delete(favorites, caller, user_id, data).favs)

OwnerNext ==
    \/ OwGet
    \/ OwPost
    \/ OwDelete

SpecOwner == FavChangeInit /\ [][OwnerNext]_vars

OwnerOps == {"UserFavorites.get", "UserFavorites.post", "UserFavorites.delete"}

\* A request authenticated as one user for the favorites of another
Foreign(r) == r.op \in OwnerOps /\ r.caller.kind = "user" /\ r.caller.id # r.req

\* C26: favorites are owner-only.  Every UserFavorites get, post or delete
\* request whose path user_id differs from the authenticated identity is
\* answered 403, whether or not the target user exists, and it neither changes
\* nor returns any user's favorites.
OwnerOnly ==
    [][ Foreign(resp') =>
            /\ resp'.status = 403
            /\ favorites' = favorites
            /\ resp'.returned.t = "None"
      ]_observed

----------------------------------------------------------------------------
(* SpecRace: requests to PokemonDetail.get running concurrently with a     *)
(* writer that changes the pokemon table and then calls clear_all_cache    *)

\* The writer's entry in running
Writer == MaxRequests + 1

Idle == [pc |-> "idle"]

\* The writer changes the table through PokemonList.post or PokemonDetail.put
RcWrite ==
    /\ running[Writer].pc = "idle"
    /\ \E id \in PokemonIds, fetched \in Fetches :
          \E r \in {PokemonList_post(db, id, fetched), PokemonDetail_put(db, id, fetched)} :
              /\ db' = r.db
              /\ running' = IF r.db = db THEN running
                            ELSE Put(running, Writer, [pc |-> "clear"])
    /\ resp' = NoResp
    /\ ret' = NoRet
    /\ UNCHANGED <<connected, backendUp, store, favorites, written>>

\* ... and then calls clear_all_cache(), again when the server did not
\* execute all of it
RcClear ==
    /\ running[Writer].pc = "clear"
    /\ \E as \in BulkAnswers(5) :
          /\ store' = clear_all_cache(store, as).st
          /\ running' = IF connected /\ AllAnswered(as)
                        THEN Put(running, Writer, Idle) ELSE running
    /\ resp' = NoResp
    /\ ret' = NoRet
    /\ UNCHANGED <<connected, backendUp, db, favorites, written>>

RaceInit ==
    /\ connected \in BOOLEAN
    /\ backendUp \in BOOLEAN
    /\ store = <<>>
    /\ ret = NoRet
    /\ db = <<>>
    /\ favorites = <<>>
    /\ resp = NoResp
    /\ written = <<>>
    /\ running = (Writer :> Idle)

RaceNext ==
    \/ Outage
    \/ Recover
    \/ Elapse(DetailTtl)
    \/ RcWrite
    \/ RcClear
    \/ \E rq \in Requests : CfLookup(rq)
    \/ \E rq \in Requests : CfQuery(rq)
    \/ \E rq \in Requests : CfFill(rq)

SpecRace == RaceInit /\ [][RaceNext]_vars

\* No request is in progress and the server has executed a clear_all_cache
\* after the last write
Quiescent == running = (Writer :> Idle)

\* C27: no stale entry survives an invalidation under concurrency.  For every
\* interleaving of read-through requests (miss, database read, cache fill)
\* with database writes that are each followed by clear_all_cache: once the
\* requests and the clear have completed, the cache holds no entry whose
\* value was computed from the table as it was before the write, that is,
\* every entry of a pokemon is the payload of its row as it is now.
NoStaleEntry ==
    Quiescent =>
        \A id \in PokemonIds :
            PokemonKey(id) \in DOMAIN store =>
                /\ id \in DOMAIN db
                /\ deserialize_data(store[PokemonKey(id)].val).val = to_dict(id, db[id])

----------------------------------------------------------------------------
(* SpecKeys: the keys built for two calls of _generate_key, or for two     *)
(* calls of a function decorated with cache_result                         *)

\* sorted(kwargs.items()) for keyword arguments given as <<name, value>> pairs
RECURSIVE SortedItems(_)
SortedItems(kwargs) ==
    IF kwargs = {} THEN <<>>
    ELSE LET first == CHOOSE x \in kwargs : \A y \in kwargs \ {x} : StrLess(x[1], y[1])
         IN <<first>> \o SortedItems(kwargs \ {first})

\* The cache_key of the wrapper of cache_result(ttl, key_prefix) around func
cache_key(key_prefix, func_name, args, kwargs) ==
    JoinColon(<<key_prefix, func_name>>
              \o [i \in 1..Len(args) |-> PyToStr(args[i])]
              \o [i \in 1..Cardinality(kwargs) |->
                    SortedItems(kwargs)[i][1] \o "=" \o SortedItems(kwargs)[i][2]])

KeyPrefixes == {search_prefix, type_prefix, pokemon_prefix, list_prefix}

KeyIdentifiers == {PyStr("a"), PyStr("a:b"), PyInt(1)}

KeySegments == {<<>>, <<PyStr("b")>>}

GenerateKeyCalls ==
    [fn : {"_generate_key"}, prefix : KeyPrefixes, identifier : KeyIdentifiers,
     args : KeySegments]

FuncNames == {"get_stats", "get_types"}

PositionalArgs == {<<>>, <<PyStr("a")>>, <<PyStr("a"), PyStr("b")>>, <<PyStr("a:b")>>,
                   <<PyStr("k=v")>>}

KeywordArgs == {{}, {<<"k", "v">>}, {<<"k", "v">>, <<"j", "v">>}}

CacheResultCalls ==
    [fn : {"cache_result"}, func_name : FuncNames, args : PositionalArgs,
     kwargs : KeywordArgs]

KeysInit ==
    /\ connected \in BOOLEAN
    /\ backendUp \in BOOLEAN
    /\ store = <<>>
    /\ ret = NoRet
    /\ db = <<>>
    /\ favorites = <<>>
    /\ resp = NoResp
    /\ written = <<>>
    /\ running \in [{1, 2} -> GenerateKeyCalls] \cup [{1, 2} -> CacheResultCalls]

KeysBuilt(op, k1, k2) ==
    /\ ret' = [op |-> op, keys |-> <<k1, k2>>]
    /\ UNCHANGED <<running, connected, backendUp, store, db, favorites, resp, written>>

KgGenerateKey ==
    /\ running[1].fn = "_generate_key"
    /\ KeysBuilt("_generate_key",
                 generate_key(running[1].prefix, running[1].identifier, running[1].args),
                 generate_key(running[2].prefix, running[2].identifier, running[2].args))

KgCacheResult ==
    /\ running[1].fn = "cache_result"
    /\ KeysBuilt("cache_result",
                 cache_key("api", running[1].func_name, running[1].args, running[1].kwargs),
                 cache_key("api", running[2].func_name, running[2].args, running[2].kwargs))

KeysNext ==
    \/ KgGenerateKey
    \/ KgCacheResult

SpecKeys == KeysInit /\ [][KeysNext]_vars

\* The same Python value: the same type and the same value
SameValue(a, b) == IF a.t # b.t THEN FALSE ELSE a.v = b.v

SameValues(as, bs) ==
    /\ Len(as) = Len(bs)
    /\ \A i \in 1..Len(as) : SameValue(as[i], bs[i])

\* The two calls were made with the same tuple of inputs
SameCall(c1, c2) ==
    IF c1.fn = "_generate_key"
    THEN /\ c1.prefix = c2.prefix
         /\ SameValue(c1.identifier, c2.identifier)
         /\ SameValues(c1.args, c2.args)
    ELSE /\ c1.func_name = c2.func_name
         /\ SameValues(c1.args, c2.args)
         /\ c1.kwargs = c2.kwargs

\* C28: key construction is injective.  _generate_key maps distinct (prefix,
\* identifier, extra segments) tuples to distinct keys, also when an
\* identifier or a segment contains ':', and keys built under different
\* prefixes are never equal; the same for the keys the cache_result wrapper
\* builds from (function name, positional arguments, keyword arguments).
KeysInjective ==
    (ret.op \in {"_generate_key", "cache_result"} /\ ret.keys[1] = ret.keys[2])
        => SameCall(running[1], running[2])

----------------------------------------------------------------------------
(* SpecAccounting: one run of PokemonSeeder.seed_pokemon, one pokemon id   *)
(* and one batch commit at a time                                          *)

MaxRunId == 3

RunIds == 1..MaxRunId

BatchSizes == 1..(MaxRunId - 1)

\* A PokeAPI answer to pokemon/<id> as the transformer reads it
SeedData(pokemon_id, name, types) ==
    [t |-> "dict", id |-> pokemon_id, name |-> name, types |-> types]

\* The answers of PokeAPI during a run: a pokemon, a pokemon without types
\* (validate_pokemon_data raises InvalidData), or a failed request
SeedUpstream(pokemon_id) ==
    {SeedData(pokemon_id, "bulbasaur", {"grass", "poison"}),
     SeedData(pokemon_id, "missingno", {}), RequestFailed}

\* transform_pokemon_data followed by validate_pokemon_data: the row to add,
\* or ValueError
InvalidData == [t |-> "ValueError"]

transform_and_validate(pokeapi_data) ==
    IF pokeapi_data.types = {} \/ pokeapi_data.id <= 0 THEN InvalidData
    ELSE [name |-> pokeapi_data.name, types |-> pokeapi_data.types]

\* self.stats after one id of _process_batch that leaves the counter of its
\* outcome as it was when the id failed
Counted_FailedUncounted(stats, outcome) ==
    [stats EXCEPT !.total_processed = @ + 1,
                  !.successful = IF outcome = "successful" THEN @ + 1 ELSE @,
                  !.skipped = IF outcome = "skipped" THEN @ + 1 ELSE @]

\* self.stats after one id of _process_batch with the given outcome
Counted(stats, outcome) ==
    [stats EXCEPT !.total_processed = @ + 1,
                  !.successful = IF outcome = "successful" THEN @ + 1 ELSE @,
                  !.failed = IF outcome = "failed" THEN @ + 1 ELSE @,
                  !.skipped = IF outcome = "skipped" THEN @ + 1 ELSE @]

\* How one id ends: it has a row already, the client raised, the data did not
\* pass the transformer, or a row was added
OutcomeOf(existing, r) ==
    IF existing THEN "skipped"
    ELSE IF r.raised THEN "failed"
    ELSE IF transform_and_validate(r.val) = InvalidData THEN "failed"
    ELSE "successful"

\* The frame of the run: its arguments, its position, self.stats, the rows
\* added to the session and not yet committed, and the history of the run
\* (ids processed in order, number of batch commits)
Frame(f, pc, batch_start, pokemon_id, stats, session, processed, commits, last) ==
    [pc |-> pc, start_id |-> f.start_id, end_id |-> f.end_id, batch_size |-> f.batch_size,
     batch_start |-> batch_start, pokemon_id |-> pokemon_id, stats |-> stats,
     session |-> session, processed |-> processed, commits |-> commits, last |-> last]

ZeroStats == [total_processed |-> 0, successful |-> 0, failed |-> 0, skipped |-> 0]

BatchEnd(f) == Min(f.batch_start + f.batch_size - 1, f.end_id)

\* seed_pokemon up to the first batch: the counters are reset
SaBegin ==
    /\ running[1].pc = "call"
    /\ running' = (1 :> Frame(running[1],
                              IF running[1].start_id > running[1].end_id
                              THEN "done" ELSE "batch",
                              running[1].start_id, running[1].start_id, ZeroStats,
                              <<>>, <<>>, 0, "none"))
    /\ resp' = IF running[1].start_id > running[1].end_id
               THEN [op |-> "seed_pokemon", stats |-> ZeroStats] ELSE resp
    /\ ret' = NoRet
    /\ UNCHANGED <<connected, backendUp, store, db, favorites, written>>

\* One id of _process_batch.  The query for the existing row sees the rows
\* of the session; log_system_event, which the client calls after a request
\* to PokeAPI, commits the session.
Processed(f, existing, r) ==
    /\ store' = IF existing THEN store ELSE r.st
    /\ db' = IF ~existing /\ r.requests = 1 THEN f.session @@ db ELSE db
    /\ running' =
         (1 :> Frame(f, "batch", f.batch_start, f.pokemon_id + 1,
                     Counted(f.stats, OutcomeOf(existing, r)),
                     IF OutcomeOf(existing, r) = "successful"
                     THEN (f.pokemon_id :> transform_and_validate(r.val))
                          @@ (IF r.requests = 1 THEN <<>> ELSE f.session)
                     ELSE IF ~existing /\ r.requests = 1 THEN <<>> ELSE f.session,
                     Append(f.processed, f.pokemon_id), f.commits,
                     OutcomeOf(existing, r)))

SaProcess ==
    /\ running[1].pc = "batch"
    /\ running[1].pokemon_id <= BatchEnd(running[1])
    /\ \E upstream \in SeedUpstream(running[1].pokemon_id),
          look \in PairAnswers, fill \in PairAnswers :
          Processed(running[1],
                    running[1].pokemon_id \in DOMAIN db \cup DOMAIN running[1].session,
                    PokeAPIClient_get_pokemon(store, running[1].pokemon_id, upstream,
                                              look, fill))
    /\ resp' = resp
    /\ ret' = NoRet
    /\ UNCHANGED <<connected, backendUp, favorites, written>>

\* db.session.commit() after a batch, then the next batch or the return of
\* self.stats
SaCommit ==
    /\ running[1].pc = "batch"
    /\ running[1].pokemon_id > BatchEnd(running[1])
    /\ db' = running[1].session @@ db
    /\ running' =
         (1 :> Frame(running[1],
                     IF running[1].batch_start + running[1].batch_size > running[1].end_id
                     THEN "done" ELSE "batch",
                     running[1].batch_start + running[1].batch_size,
                     running[1].pokemon_id, running[1].stats, <<>>,
                     running[1].processed, running[1].commits + 1, "commit"))
    /\ resp' = IF running[1].batch_start + running[1].batch_size > running[1].end_id
               THEN [op |-> "seed_pokemon", stats |-> running[1].stats] ELSE resp
    /\ ret' = NoRet
    /\ UNCHANGED <<connected, backendUp, store, favorites, written>>

\* A run starts from an empty table or one with the row of pokemon 2, and
\* from an empty cache or one that holds the PokeAPI answer for pokemon 1
AccountingInit ==
    /\ connected \in BOOLEAN
    /\ backendUp \in BOOLEAN
    /\ store \in {<<>>, (PokeapiKey(1) :>
                            [val |-> serialize_data(SeedData(1, "bulbasaur", {"grass"})),
                             ttl |-> PokeapiTtl])}
    /\ ret = NoRet
    /\ db \in {<<>>, (2 :> [name |-> "ivysaur", types |-> {"grass", "poison"}])}
    /\ favorites = <<>>
    /\ resp = NoResp
    /\ written = <<>>
    /\ running \in [{1} -> [pc : {"call"}, start_id : RunIds, end_id : RunIds,
                            batch_size : BatchSizes]]

AccountingNext ==
    \/ Outage
    \/ Recover
    \/ SaBegin
    \/ SaProcess
    \/ SaCommit

SpecAccounting == AccountingInit /\ [][AccountingNext]_vars

\* The ids start_id .. next - 1 in ascending order
IdsFrom(start_id, next) == [i \in 1..(next - start_id) |-> start_id + i - 1]

\* ceil(n / d)
CeilDiv(n, d) == (n + d - 1) \div d

Balanced(stats) ==
    stats.total_processed = stats.successful + stats.failed + stats.skipped

\* C29: seeder accounting.  For start_id <= end_id and batch_size >= 1,
\* seed_pokemon processes each id of [start_id, end_id] exactly once in
\* ascending order and commits after each batch; at every batch boundary and
\* on return total_processed = successful + failed + skipped, and on return
\* total_processed = end_id - start_id + 1; an id that fails (upstream error,
\* transform or validation error) increments failed and the run goes on with
\* the next id.
SeederAccounting ==
    [][ (running' # running /\ running'[1].start_id <= running'[1].end_id) =>
          /\ running'[1].processed =
                 IdsFrom(running'[1].start_id, running'[1].pokemon_id)
          /\ running'[1].stats.total_processed = Len(running'[1].processed)
          /\ Balanced(running'[1].stats)
          /\ running'[1].last = "failed" =>
                /\ running'[1].stats.failed = running[1].stats.failed + 1
                /\ running'[1].pc = "batch"
          /\ running'[1].last = "commit" =>
                /\ running'[1].session = <<>>
                /\ running'[1].commits =
                       CeilDiv(Len(running'[1].processed), running'[1].batch_size)
                /\ \A id \in DOMAIN running[1].session : id \in DOMAIN db'
          /\ running'[1].pc = "done" =>
                /\ running'[1].stats.total_processed =
                       running'[1].end_id - running'[1].start_id + 1
                /\ resp'.stats = running'[1].stats
                /\ running'[1].last = "commit"
      ]_observed

\* A run over three ids in two batches has returned: one id had a row, one
\* failed and the next one was added
SeederAccountingWitness ==
    /\ running[1].pc = "done"
    /\ running[1].commits = 2
    /\ running[1].stats.skipped = 1
    /\ running[1].stats.failed = 1
    /\ running[1].stats.successful = 1
    /\ 3 \in DOMAIN db

----------------------------------------------------------------------------
(* SpecAvail: a CacheManager is constructed and then used for its whole    *)
(* lifetime while the server goes away and comes back                      *)

\* The instance: not constructed yet, or constructed while the server was
\* reachable or not
Constructed == running[1].pc = "ready"

\* CacheManager.__init__: the client is kept when the ping is answered and
\* set to None otherwise
AvConstruct ==
    /\ running[1].pc = "new"
    /\ \E pingOk \in Answers : connected' = ~redis_ping(pingOk).exc
    /\ running' = (1 :> [pc |-> "ready", reachable |-> backendUp])
    /\ ret' = NoRet
    /\ UNCHANGED <<backendUp, store, db, favorites, resp, written>>

AvailInit ==
    /\ connected = FALSE
    /\ backendUp \in BOOLEAN
    /\ store = <<>>
    /\ ret = NoRet
    /\ db = <<>>
    /\ favorites = <<>>
    /\ resp = NoResp
    /\ written = <<>>
    /\ running = (1 :> [pc |-> "new"])

\* The ttl arguments that the server accepts: None, 0, or a positive expiry
AvailTtls == {PyNone} \cup {PyInt(n) : n \in 0..MaxTtl}

AvailNext ==
    \/ Outage
    \/ Recover
    \/ AvConstruct
    \/ Constructed /\ \E k \in StoreKeys, v \in StoreValues, t \in AvailTtls : DoSet(k, v, t)
    \/ Constructed /\ \E k \in StoreKeys : DoGet(k)
    \/ Constructed /\ \E k \in StoreKeys : DoDelete(k)
    \/ Constructed /\ \E k \in StoreKeys : DoExists(k)
    \/ Constructed /\ \E p \in {"pokemon:*", "pokemon_search:*"} : DoClearPattern(p)
    \/ Constructed /\ \E k \in StoreKeys : DoGetTtl(k)
    \/ Constructed /\ DoIsAvailable

SpecAvail == AvailInit /\ [][AvailNext]_vars

\* The value a method returns when it fails open
FailedOpen(r) ==
    CASE r.op = "get" -> r.val = PyNone
      [] r.op \in {"set", "delete", "exists", "is_available"} -> r.val = FALSE
      [] r.op = "clear_pattern" -> r.val = 0
      [] r.op = "get_ttl" -> r.val = -1

\* The call had the effect of its command on the server
Succeeded(r, before, after) ==
    CASE r.op = "is_available" -> r.val = TRUE
      [] r.op = "set" -> r.val = TRUE /\ r.key \in DOMAIN after
      [] r.op = "get" -> r.key \in DOMAIN before => r.val # PyNone
      [] r.op = "delete" -> r.val = (r.key \in DOMAIN before) /\ r.key \notin DOMAIN after
      [] r.op = "exists" -> r.val = (r.key \in DOMAIN before)
      [] r.op = "clear_pattern" ->
             r.val = Cardinality(DOMAIN before \ DOMAIN after)
      [] r.op = "get_ttl" -> r.key \in DOMAIN before => r.val = before[r.key].ttl

\* C30: availability tracks the backend only if the initial connection
\* succeeded.  When the backend was unreachable at construction, the instance
\* never gets a client: is_available() returns False on every later call and
\* every operation fails open and leaves the store alone, also after the
\* backend has come back.  When construction succeeded, every call reflects
\* the backend as it is now: it fails open during an outage, and it succeeds
\* whenever the server answers it, also after an outage has ended.
AvailabilityTracksBackend ==
    [][ /\ Constructed => connected' = connected
        /\ (Constructed' /\ ~running'[1].reachable) => ~connected'
        /\ (Constructed /\ ret'.op # "none") =>
              /\ ~ret'.raised
              /\ IF ~connected
                 THEN ~ret'.reached /\ FailedOpen(ret') /\ store' = store
                 ELSE /\ ~backendUp => ~ret'.reached
                      /\ ~ret'.reached => FailedOpen(ret') /\ store' = store
                      /\ ret'.reached => Succeeded(ret', store, store')
      ]_observed

\* An instance constructed during an outage is asked is_available() after the
\* backend has come back, and answers False.
AvailabilityWitness ==
    /\ Constructed
    /\ ~running[1].reachable
    /\ backendUp
    /\ ret.op = "is_available"
    /\ ret.val = FALSE
====
